---- MODULE Spec2Model ----
(***************************************************************************)
(* A model of yars, a user-mode RV32IM simulator (yars-lib): the flat     *)
(* little-endian memory, the integer register file, the instruction       *)
(* decoder, the processor's fetch/execute and the simulator's step/run     *)
(* driver.                                                                 *)
(*                                                                         *)
(* A u32 is the pair <<hi, lo>> of its 16-bit halves, because TLC's        *)
(* integers are 32-bit signed.  An i16 immediate is a signed integer;      *)
(* an i32 immediate is a u32 holding its two's-complement bits.            *)
(***************************************************************************)
EXTENDS Integers, Sequences, FiniteSets, TLC

VARIABLES
    memory,     \* Memory.memory: the byte buffer, address a at memory[a + 1]
    registers,  \* IntRegisterSet.reg: [0..31 -> u32]
    pc,         \* Processor.pc: u32
    cycles,     \* Processor.cycles
    logger,     \* Simulator.logger: [some, lines], the lines written so far
    config,     \* fixed at construction: the build profile, the first pc
    state,      \* where the caller is: "running", "returned", "panicked", "no_arm"
    result,     \* the value run returned, "None" before it returns
    last        \* the last operation: its inputs and what it observed

vars == <<memory, registers, pc, cycles, logger, config, state, result, last>>

-----------------------------------------------------------------------------
(* 32-bit words as two 16-bit halves.                                      *)

Pow2(n) == 2 ^ n

Half == Pow2(16)

W(hi, lo) == <<hi, lo>>

\* A small natural number as a u32.
u32(n) == <<n \div Half, n % Half>>

\* `x as i32 as u32` / `x as u32` for a signed x that fits 31 bits.
i32_as_u32(x) == <<(x \div Half) % Half, x % Half>>

\* u32::wrapping_add
wrapping_add(a, b) ==
    LET s == a[2] + b[2]
    IN  <<(a[1] + b[1] + (s \div Half)) % Half, s % Half>>

\* u32::wrapping_sub
wrapping_sub(a, b) ==
    LET d == a[2] - b[2]
    IN  <<(a[1] - b[1] + (d \div Half)) % Half, d % Half>>

\* a < b on u32
LtU(a, b) == a[1] < b[1] \/ (a[1] = b[1] /\ a[2] < b[2])

\* the high half of x read as the high half of an i32
SignedHi(h) == IF h >= 32768 THEN h - Half ELSE h

\* a < b on `as i32`
LtS(a, b) ==
    \/ SignedHi(a[1]) < SignedHi(b[1])
    \/ (a[1] = b[1] /\ a[2] < b[2])

\* (w >> k) & (2^n - 1), for n <= 30
Field(w, k, n) ==
    IF k >= 16 THEN (w[1] \div Pow2(k - 16)) % Pow2(n)
    ELSE IF n <= 16 - k THEN (w[2] \div Pow2(k)) % Pow2(n)
    ELSE (w[1] % Pow2(n - (16 - k))) * Pow2(16 - k) + (w[2] \div Pow2(k))

\* bitwise operators on naturals below 2^n
RECURSIVE BitOp(_, _, _, _)
BitOp(op, a, b, n) ==
    IF n = 0 THEN 0
    ELSE LET x == a % 2
             y == b % 2
             z == CASE op = "and" -> IF x = 1 /\ y = 1 THEN 1 ELSE 0
                    [] op = "or"  -> IF x = 1 \/ y = 1 THEN 1 ELSE 0
                    [] op = "xor" -> IF x # y THEN 1 ELSE 0
         IN  z + 2 * BitOp(op, a \div 2, b \div 2, n - 1)

BitAnd(a, b) == <<BitOp("and", a[1], b[1], 16), BitOp("and", a[2], b[2], 16)>>
BitOr(a, b)  == <<BitOp("or", a[1], b[1], 16), BitOp("or", a[2], b[2], 16)>>
BitXor(a, b) == <<BitOp("xor", a[1], b[1], 16), BitOp("xor", a[2], b[2], 16)>>

\* w << s on u32, 0 <= s <= 31
Shl(w, s) ==
    IF s >= 16 THEN <<(w[2] % Pow2(32 - s)) * Pow2(s - 16), 0>>
    ELSE <<(w[1] % Pow2(16 - s)) * Pow2(s) + (w[2] \div Pow2(16 - s)),
           (w[2] % Pow2(16 - s)) * Pow2(s)>>

\* w >> s on u32 (logical), 0 <= s <= 31
Shr(w, s) ==
    IF s >= 16 THEN <<0, w[1] \div Pow2(s - 16)>>
    ELSE <<w[1] \div Pow2(s),
           (w[1] % Pow2(s)) * Pow2(16 - s) + (w[2] \div Pow2(s))>>

\* w >> s on i32 (arithmetic), 0 <= s <= 31
Sar(w, s) ==
    LET h == SignedHi(w[1])
    IN  IF s >= 16 THEN <<(IF h < 0 THEN Half - 1 ELSE 0), (h \div Pow2(s - 16)) % Half>>
        ELSE <<(h \div Pow2(s)) % Half,
               (w[1] % Pow2(s)) * Pow2(16 - s) + (w[2] \div Pow2(s))>>

-----------------------------------------------------------------------------
(* register.rs: the integer register file.                                 *)

Registers == 0..31

SP == 2

IntRegisterSet_new == [r \in Registers |-> u32(0)]

IntRegisterSet_read(reg, r) == reg[r]

\* a write that does not single out index 0
IntRegisterSet_write_unguarded(reg, r, val) == [reg EXCEPT ![r] = val]

IntRegisterSet_write(reg, r, val) ==
    IF r # 0 THEN [reg EXCEPT ![r] = val] ELSE reg

-----------------------------------------------------------------------------
(* memory.rs: the flat byte buffer and its little-endian accessors.  An    *)
(* access outside the buffer is a Rust panic (slice index out of range):   *)
(* the accessor returns nothing and the buffer is untouched.               *)

Memory_new(size) == [i \in 1..size |-> 0]

Memory_size(mem) == Len(mem)

u16_to_le_bytes(v) == <<v % 256, v \div 256>>

\* the bytes of a word, most significant first
u32_to_be_bytes(v) == <<v[1] \div 256, v[1] % 256, v[2] \div 256, v[2] % 256>>

u32_to_le_bytes(v) == <<v[2] % 256, v[2] \div 256, v[1] % 256, v[1] \div 256>>

u16_from_le_bytes(b) == b[1] + 256 * b[2]

u32_from_le_bytes(b) == <<b[3] + 256 * b[4], b[1] + 256 * b[2]>>

\* a range check that takes the end of the slice for its last index
SliceInBounds_inclusive(mem, address, width) ==
    address[1] = 0 /\ address[2] + width < Len(mem)

\* the slice memory[addr..addr + width] exists (addr is `address as usize`)
SliceInBounds(mem, address, width) ==
    address[1] = 0 /\ address[2] + width <= Len(mem)

\* memory[addr..addr + width]
Slice(mem, address, width) == SubSeq(mem, address[2] + 1, address[2] + width)

\* memory[addr..addr + n].copy_from_slice(bytes)
CopyFromSlice(mem, address, bytes) ==
    [i \in 1..Len(mem) |->
        IF i > address[2] /\ i <= address[2] + Len(bytes)
        THEN bytes[i - address[2]] ELSE mem[i]]

Memory_read_byte(mem, address) ==
    IF SliceInBounds(mem, address, 1)
    THEN [panic |-> FALSE, value |-> mem[address[2] + 1]]
    ELSE [panic |-> TRUE, value |-> 0]

Memory_read_halfword(mem, address) ==
    IF SliceInBounds(mem, address, 2)
    THEN [panic |-> FALSE, value |-> u16_from_le_bytes(Slice(mem, address, 2))]
    ELSE [panic |-> TRUE, value |-> 0]

Memory_read_word(mem, address) ==
    IF SliceInBounds(mem, address, 4)
    THEN [panic |-> FALSE, value |-> u32_from_le_bytes(Slice(mem, address, 4))]
    ELSE [panic |-> TRUE, value |-> u32(0)]

Memory_write_byte(mem, address, value) ==
    IF SliceInBounds(mem, address, 1)
    THEN [panic |-> FALSE, memory |-> CopyFromSlice(mem, address, <<value>>)]
    ELSE [panic |-> TRUE, memory |-> mem]

Memory_write_halfword(mem, address, value) ==
    IF SliceInBounds(mem, address, 2)
    THEN [panic |-> FALSE, memory |-> CopyFromSlice(mem, address, u16_to_le_bytes(value))]
    ELSE [panic |-> TRUE, memory |-> mem]

Memory_write_word(mem, address, value) ==
    IF SliceInBounds(mem, address, 4)
    THEN [panic |-> FALSE, memory |-> CopyFromSlice(mem, address, u32_to_le_bytes(value))]
    ELSE [panic |-> TRUE, memory |-> mem]

-----------------------------------------------------------------------------
(* instruction.rs: the format table and the decoder.                       *)

\* i16 arithmetic of the S and B immediates
as_i16(n) == LET m == n % Half IN IF m >= 32768 THEN m - Half ELSE m

shl_i16(x, s) == as_i16(x * Pow2(s))

\* a right shift that fills with zeros
shr_i16_logical(x, s) == (x % Half) \div Pow2(s)

shr_i16(x, s) == x \div Pow2(s)

\* INSTRUCTION_FORMATS, indexed by opcode[6:2] + 1
INSTRUCTION_FORMATS ==
    << "I", "I", "None", "I", "I", "U", "I", "None",
       "S", "S", "None", "R", "R", "U", "R", "None",
       "R4", "R4", "R4", "R4", "R", "None", "None", "None",
       "B", "I", "None", "J", "I", "None", "None", "None" >>

\* a lookup that does not test opcode[1:0]
InstructionFormat_from_opcode_unchecked(opcode) ==
    INSTRUCTION_FORMATS[((opcode \div 4) % 32) + 1]

InstructionFormat_from_opcode(opcode) ==
    IF opcode % 4 = 3 THEN INSTRUCTION_FORMATS[((opcode \div 4) % 32) + 1]
    ELSE "None"

\* FenceKind::try_from
FenceKind_try_from(value) ==
    CASE value = 2 -> "R"
      [] value = 1 -> "W"
      [] value = 3 -> "RW"
      [] OTHER -> "Err"

Err == [ok |-> FALSE]

Ok(op, fields) == [ok |-> TRUE, inst |-> [op |-> op] @@ fields]

DecodeR(inst, opcode) ==
    LET rd == Field(inst, 7, 5)
        rs1 == Field(inst, 15, 5)
        rs2 == Field(inst, 20, 5)
        funct3 == Field(inst, 12, 3)
        funct7 == Field(inst, 25, 7)
        fn3_opcode == funct3 * 32 + (opcode \div 4)
        f == [rd |-> rd, rs1 |-> rs1, rs2 |-> rs2]
    IN  CASE fn3_opcode = 12 ->        \* 0b000_01100
               CASE funct7 = 0 -> Ok("ADD", f)
                 [] funct7 = 1 -> Ok("MUL", f)
                 [] funct7 = 32 -> Ok("SUB", f)
                 [] OTHER -> Err
          [] fn3_opcode = 44 ->        \* 0b001_01100
               CASE funct7 = 0 -> Ok("SLL", f)
                 [] funct7 = 1 -> Ok("MULH", f)
                 [] OTHER -> Err
          [] fn3_opcode = 76 ->        \* 0b010_01100
               CASE funct7 = 0 -> Ok("SLT", f)
                 [] funct7 = 1 -> Ok("MULHSU", f)
                 [] OTHER -> Err
          [] fn3_opcode = 108 ->       \* 0b011_01100
               CASE funct7 = 0 -> Ok("SLTU", f)
                 [] funct7 = 1 -> Ok("MULHU", f)
                 [] OTHER -> Err
          [] fn3_opcode = 140 ->       \* 0b100_01100
               CASE funct7 = 0 -> Ok("XOR", f)
                 [] funct7 = 1 -> Ok("DIV", f)
                 [] OTHER -> Err
          [] fn3_opcode = 172 ->       \* 0b101_01100
               CASE funct7 = 0 -> Ok("SRL", f)
                 [] funct7 = 1 -> Ok("DIVU", f)
                 [] funct7 = 32 -> Ok("SRA", f)
                 [] OTHER -> Err
          [] fn3_opcode = 204 ->       \* 0b110_01100
               CASE funct7 = 0 -> Ok("OR", f)
                 [] funct7 = 1 -> Ok("REM", f)
                 [] OTHER -> Err
          [] fn3_opcode = 236 ->       \* 0b111_01100
               CASE funct7 = 0 -> Ok("AND", f)
                 [] funct7 = 1 -> Ok("REMU", f)
                 [] OTHER -> Err
          [] OTHER -> Err

DecodeFence(imm) ==
    LET fm == (imm \div 256) % 16
        pred == FenceKind_try_from((imm \div 16) % 16)
        succ == FenceKind_try_from(imm % 16)
    IN  IF pred = "Err" \/ succ = "Err" THEN Err
        ELSE IF fm = 8 /\ pred = "RW" /\ succ = "RW" THEN Ok("FENCETSO", <<>>)
        ELSE IF fm = 0 THEN Ok("FENCE", [pred |-> pred, succ |-> succ])
        ELSE Err

DecodeI(inst, opcode) ==
    LET rd == Field(inst, 7, 5)
        rs1 == Field(inst, 15, 5)
        funct3 == Field(inst, 12, 3)
        imm == SignedHi(inst[1]) \div 16       \* ((inst as i32) >> 20) as i16
        csr == imm % 4096
        fn3_opcode == funct3 * 32 + (opcode \div 4)
        f == [rd |-> rd, rs1 |-> rs1, imm |-> imm]
        c == [rd |-> rd, rs1 |-> rs1, csr |-> csr]
        ci == [rd |-> rd, uimm |-> rs1, csr |-> csr]
    IN  CASE fn3_opcode = 25 -> Ok("JALR", f)      \* 0b000_11001
          [] fn3_opcode = 0 -> Ok("LB", f)         \* 0b000_00000
          [] fn3_opcode = 32 -> Ok("LH", f)        \* 0b001_00000
          [] fn3_opcode = 64 -> Ok("LW", f)        \* 0b010_00000
          [] fn3_opcode = 128 -> Ok("LBU", f)      \* 0b100_00000
          [] fn3_opcode = 160 -> Ok("LHU", f)      \* 0b101_00000
          [] fn3_opcode = 4 -> Ok("ADDI", f)       \* 0b000_00100
          [] fn3_opcode = 68 -> Ok("SLTI", f)      \* 0b010_00100
          [] fn3_opcode = 100 -> Ok("SLTIU", f)    \* 0b011_00100
          [] fn3_opcode = 132 -> Ok("XORI", f)     \* 0b100_00100
          [] fn3_opcode = 196 -> Ok("ORI", f)      \* 0b110_00100
          [] fn3_opcode = 228 -> Ok("ANDI", f)     \* 0b111_00100
          [] fn3_opcode = 3 -> DecodeFence(imm)    \* 0b000_00011
          [] fn3_opcode = 28 ->                    \* 0b000_11100
               CASE imm = 0 -> Ok("ECALL", <<>>)
                 [] imm = 1 -> Ok("EBREAK", <<>>)
                 [] OTHER -> Err
          [] fn3_opcode = 35 -> Ok("FENCEI", <<>>) \* 0b001_00011
          [] fn3_opcode = 60 -> Ok("CSRRW", c)     \* 0b001_11100
          [] fn3_opcode = 92 -> Ok("CSRRS", c)     \* 0b010_11100
          [] fn3_opcode = 124 -> Ok("CSRRC", c)    \* 0b011_11100
          [] fn3_opcode = 188 -> Ok("CSRRWI", ci)  \* 0b101_11100
          [] fn3_opcode = 220 -> Ok("CSRRSI", ci)  \* 0b110_11100
          [] fn3_opcode = 252 -> Ok("CSRRCI", ci)  \* 0b111_11100
          [] OTHER -> Err

DecodeS(inst, opcode) ==
    LET funct3 == Field(inst, 12, 3)
        rs1 == Field(inst, 15, 5)
        rs2 == Field(inst, 20, 5)
        imm115 == Field(inst, 25, 7)
        imm40 == Field(inst, 7, 5)
        imm == shr_i16(shl_i16(as_i16(imm115 * 32 + imm40), 4), 4)
        fn3_opcode == funct3 * 32 + (opcode \div 4)
        f == [rs1 |-> rs1, rs2 |-> rs2, imm |-> imm]
    IN  CASE fn3_opcode = 8 -> Ok("SB", f)         \* 0b000_01000
          [] fn3_opcode = 40 -> Ok("SH", f)        \* 0b001_01000
          [] fn3_opcode = 72 -> Ok("SW", f)        \* 0b010_01000
          [] OTHER -> Err

DecodeB(inst, opcode) ==
    LET funct3 == Field(inst, 12, 3)
        rs1 == Field(inst, 15, 5)
        rs2 == Field(inst, 20, 5)
        imm12 == Field(inst, 31, 1)
        imm105 == Field(inst, 25, 6)
        imm41 == Field(inst, 8, 4)
        imm11 == Field(inst, 7, 1)
        imm == shr_i16(shl_i16(as_i16(imm12 * 4096 + imm11 * 2048
                                      + imm105 * 32 + imm41 * 2), 3), 3)
        fn3_opcode == funct3 * 32 + (opcode \div 4)
        f == [rs1 |-> rs1, rs2 |-> rs2, imm |-> imm]
    IN  CASE fn3_opcode = 24 -> Ok("BEQ", f)       \* 0b000_11000
          [] fn3_opcode = 56 -> Ok("BNE", f)       \* 0b001_11000
          [] fn3_opcode = 152 -> Ok("BLT", f)      \* 0b100_11000
          [] fn3_opcode = 184 -> Ok("BGE", f)      \* 0b101_11000
          [] fn3_opcode = 216 -> Ok("BLTU", f)     \* 0b110_11000
          [] fn3_opcode = 248 -> Ok("BGEU", f)     \* 0b111_11000
          [] OTHER -> Err

DecodeU(inst, opcode) ==
    LET rd == Field(inst, 7, 5)
        imm == <<inst[1], inst[2] - (inst[2] % 4096)>>   \* inst & !0xFFF
        f == [rd |-> rd, imm |-> imm]
    IN  CASE opcode \div 4 = 13 -> Ok("LUI", f)    \* 0b01101
          [] opcode \div 4 = 5 -> Ok("AUIPC", f)   \* 0b00101
          [] OTHER -> Err

DecodeJ(inst, opcode) ==
    LET rd == Field(inst, 7, 5)
        imm20 == Field(inst, 31, 1)
        imm101 == Field(inst, 21, 10)
        imm11 == Field(inst, 20, 1)
        imm1912 == Field(inst, 12, 8)
        raw == u32(imm20 * Pow2(20) + imm1912 * 4096 + imm11 * 2048 + imm101 * 2)
        imm == Sar(Shl(raw, 11), 11)
    IN  CASE opcode \div 4 = 27 -> Ok("JAL", [rd |-> rd, imm |-> imm])  \* 0b11011
          [] OTHER -> Err

\* Instruction::try_from(u32)
Instruction_try_from(inst) ==
    LET opcode == inst[2] % 128
        format == InstructionFormat_from_opcode(opcode)
    IN  CASE format = "None" -> Err
          [] format = "R" -> DecodeR(inst, opcode)
          [] format = "R4" -> Err
          [] format = "I" -> DecodeI(inst, opcode)
          [] format = "S" -> DecodeS(inst, opcode)
          [] format = "B" -> DecodeB(inst, opcode)
          [] format = "U" -> DecodeU(inst, opcode)
          [] format = "J" -> DecodeJ(inst, opcode)

-----------------------------------------------------------------------------
(* Multiplication and division on u32, as the 64-bit and 32-bit Rust       *)
(* operators compute them.                                                 *)

\* column k of the schoolbook product of two 4-byte numbers
MulColumn(a, b, k) ==
    LET Term(i) == IF k - i >= 0 /\ k - i <= 3 THEN a[i + 1] * b[k - i + 1] ELSE 0
    IN  Term(0) + Term(1) + Term(2) + Term(3)

RECURSIVE MulBytes(_, _, _, _)
MulBytes(a, b, k, carry) ==
    IF k = 8 THEN <<>>
    ELSE LET t == MulColumn(a, b, k) + carry
         IN  <<t % 256>> \o MulBytes(a, b, k + 1, t \div 256)

\* the 64-bit product of two u32: [hi, lo]
MulU64(x, y) ==
    LET r == MulBytes(u32_to_le_bytes(x), u32_to_le_bytes(y), 0, 0)
    IN  [lo |-> u32_from_le_bytes(SubSeq(r, 1, 4)),
         hi |-> u32_from_le_bytes(SubSeq(r, 5, 8))]

\* restoring division of u32 x by u32 y # 0: the quotient and remainder of
\* the bits 31 down to i of x
RECURSIVE DivStep(_, _, _)
DivStep(x, y, i) ==
    IF i = 32 THEN [q |-> u32(0), r |-> u32(0)]
    ELSE LET prev == DivStep(x, y, i + 1)
             r2 == wrapping_add(Shl(prev.r, 1), u32(Field(x, i, 1)))
         IN  IF prev.r[1] >= 32768 \/ ~LtU(r2, y)
             THEN [q |-> wrapping_add(Shl(prev.q, 1), u32(1)), r |-> wrapping_sub(r2, y)]
             ELSE [q |-> Shl(prev.q, 1), r |-> r2]

DivModU(x, y) == DivStep(x, y, 0)

IsNeg(x) == x[1] >= 32768

Neg(x) == wrapping_sub(u32(0), x)

Abs(x) == IF IsNeg(x) THEN Neg(x) ELSE x

INT_MIN == W(32768, 0)

MINUS_ONE == W(65535, 65535)

\* i32 `/` and `%` (truncating), for y # 0 and not (INT_MIN, -1)
DivS(x, y) ==
    LET m == DivModU(Abs(x), Abs(y)).q
    IN  IF IsNeg(x) # IsNeg(y) THEN Neg(m) ELSE m

RemS(x, y) ==
    LET m == DivModU(Abs(x), Abs(y)).r
    IN  IF IsNeg(x) THEN Neg(m) ELSE m

-----------------------------------------------------------------------------
(* processor.rs: a Processor is [pc, cycles, memory, registers].           *)

\* Processor::new
\* a constructor that points sp one past the last byte
Processor_new_sp_at_size(mem) ==
    [pc |-> u32(0),
     cycles |-> 0,
     memory |-> mem,
     registers |-> IntRegisterSet_write(IntRegisterSet_new, SP, u32(Memory_size(mem)))]

Processor_new(mem) ==
    [pc |-> u32(0),
     cycles |-> 0,
     memory |-> mem,
     registers |-> IntRegisterSet_write(IntRegisterSet_new, SP, u32(Memory_size(mem) - 1))]

\* Processor::set_pc
Processor_set_pc(p, newpc) == [p EXCEPT !.pc = newpc]

\* `addr >= self.memory.size()` and `self.pc >= self.memory.size()`
BeyondSize(p, addr) == ~LtU(addr, u32(Memory_size(p.memory)))

\* Processor::fetch: an instruction, an error, or the panic of read_word
Processor_fetch(p) ==
    IF BeyondSize(p, p.pc) THEN [outcome |-> "IllegalFetch"]
    ELSE IF p.pc[2] % 4 # 0 THEN [outcome |-> "MisalignedFetch"]
    ELSE LET opcode == Memory_read_word(p.memory, p.pc)
         IN  IF opcode.panic THEN [outcome |-> "Panic"]
             ELSE LET d == Instruction_try_from(opcode.value)
                  IN  IF d.ok THEN [outcome |-> "Ok", inst |-> d.inst]
                      ELSE [outcome |-> "InvalidOpcode"]

\* the arms of execute: what each leaves behind
Returns(outcome, p) == [outcome |-> outcome, p |-> p]

\* an arm that returns Ok(()) without counting the cycle
Retire_uncounted(p) == Returns("Ok", p)

\* self.cycles += 1; Ok(())
Retire(p) == Returns("Ok", [p EXCEPT !.cycles = @ + 1])

\* a write of the result to rd and to sp
WriteRd_and_sp(p, rd, val) ==
    Retire([p EXCEPT !.registers =
               IntRegisterSet_write(IntRegisterSet_write(@, rd, val), SP, val)])

\* self.registers.write(rd, val); self.cycles += 1; Ok(())
WriteRd(p, rd, val) ==
    Retire([p EXCEPT !.registers = IntRegisterSet_write(@, rd, val)])

\* a trap arm that also moves PC past the trapping instruction
Trap_advancing(p, trap) ==
    Returns(trap, [p EXCEPT !.cycles = @ + 1, !.pc = wrapping_add(@, u32(4))])

\* self.cycles += 1; Err(trap)
Trap(p, trap) == Returns(trap, [p EXCEPT !.cycles = @ + 1])

\* a Rust panic unwinds out of execute: nothing more is written
Panics(p) == Returns("Panic", p)

Reg(p, r) == IntRegisterSet_read(p.registers, r)

\* self.registers.read(rs1).wrapping_add(imm as i32 as u32)
EffectiveAddress(p, inst) == wrapping_add(Reg(p, inst.rs1), i32_as_u32(inst.imm))

bool_as_u32(b) == IF b THEN u32(1) ELSE u32(0)

\* `v1 << v2`, `v1 >> v2`: with overflow checks (a debug build) a shift by 32
\* or more panics; without them the amount is taken modulo 32
ShiftOverflows(amount) == amount[1] # 0 \/ amount[2] >= 32

ShiftArm(p, rd, v1, amount, build, kind) ==
    IF ShiftOverflows(amount) /\ build = "debug" THEN Panics(p)
    ELSE LET s == amount[2] % 32
         IN  WriteRd(p, rd, CASE kind = "shl" -> Shl(v1, s)
                              [] kind = "shr" -> Shr(v1, s)
                              [] kind = "sar" -> Sar(v1, s))

\* load arms that write the address to rd before the bounds check
LoadArm_clobbering(p, inst, width) ==
    LET addr == EffectiveAddress(p, inst)
        q == [p EXCEPT !.registers = IntRegisterSet_write(@, inst.rd, addr)]
    IN  IF BeyondSize(p, addr) THEN Returns("IllegalAccess", q)
        ELSE LET r == CASE width = 1 -> Memory_read_byte(p.memory, addr)
                        [] width = 2 -> Memory_read_halfword(p.memory, addr)
                        [] width = 4 -> Memory_read_word(p.memory, addr)
             IN  IF r.panic THEN Panics(p)
                 ELSE WriteRd(p, inst.rd, IF width = 4 THEN r.value ELSE u32(r.value))

\* the load arms: bounds check on addr alone, then the read, then the write.
\* `u8 as i32 as u32` and `u16 as i32 as u32` zero-extend, like `as u32`.
LoadArm(p, inst, width) ==
    LET addr == EffectiveAddress(p, inst)
    IN  IF BeyondSize(p, addr) THEN Returns("IllegalAccess", p)
        ELSE LET r == CASE width = 1 -> Memory_read_byte(p.memory, addr)
                        [] width = 2 -> Memory_read_halfword(p.memory, addr)
                        [] width = 4 -> Memory_read_word(p.memory, addr)
             IN  IF r.panic THEN Panics(p)
                 ELSE WriteRd(p, inst.rd, IF width = 4 THEN r.value ELSE u32(r.value))

\* store arms that all write the whole word of rs2
StoreArm_whole_word(p, inst, width) ==
    LET addr == EffectiveAddress(p, inst)
        r == Memory_write_word(p.memory, addr, Reg(p, inst.rs2))
    IN  IF BeyondSize(p, addr) THEN Returns("IllegalAccess", p)
        ELSE IF r.panic THEN Panics(p)
        ELSE Retire([p EXCEPT !.memory = r.memory])

\* the store arms
StoreArm(p, inst, width) ==
    LET addr == EffectiveAddress(p, inst)
        v == Reg(p, inst.rs2)
    IN  IF BeyondSize(p, addr) THEN Returns("IllegalAccess", p)
        ELSE LET r == CASE width = 1 -> Memory_write_byte(p.memory, addr, v[2] % 256)
                        [] width = 2 -> Memory_write_halfword(p.memory, addr, v[2])
                        [] width = 4 -> Memory_write_word(p.memory, addr, v)
             IN  IF r.panic THEN Panics(p)
                 ELSE Retire([p EXCEPT !.memory = r.memory])

\* the condition each branch arm tests
BranchCondition(op, v1, v2) ==
    CASE op = "BEQ" -> v1 = v2
      [] op = "BNE" -> v1 # v2
      [] op = "BLT" -> LtS(v2, v1)        \* v1 > v2 as i32
      [] op = "BGE" -> ~LtS(v2, v1)       \* v1 <= v2 as i32
      [] op = "BLTU" -> LtU(v2, v1)       \* v1 > v2
      [] op = "BGEU" -> ~LtU(v2, v1)      \* v1 <= v2

BranchArm(p, inst) ==
    LET v1 == Reg(p, inst.rs1)
        v2 == Reg(p, inst.rs2)
        v3 == i32_as_u32(inst.imm)
    IN  IF BranchCondition(inst.op, v1, v2)
        THEN Retire([p EXCEPT !.pc = wrapping_add(p.pc, v3)])
        ELSE Retire(p)

\* the division arms: `/` and `%` panic on a zero divisor and on INT_MIN / -1
DivArm(p, inst) ==
    LET v1 == Reg(p, inst.rs1)
        v2 == Reg(p, inst.rs2)
        signed == inst.op \in {"DIV", "REM"}
    IN  IF v2 = u32(0) THEN Panics(p)
        ELSE IF signed /\ v1 = INT_MIN /\ v2 = MINUS_ONE THEN Panics(p)
        ELSE WriteRd(p, inst.rd,
                     CASE inst.op = "DIV" -> DivS(v1, v2)
                       [] inst.op = "DIVU" -> DivModU(v1, v2).q
                       [] inst.op = "REM" -> RemS(v1, v2)
                       [] inst.op = "REMU" -> DivModU(v1, v2).r)

\* the link register of a jump written with the new PC + 4
JalArm_link_from_target(p, inst) ==
    LET val == wrapping_add(p.pc, inst.imm)
        q == [p EXCEPT !.registers =
                 IntRegisterSet_write(@, inst.rd, wrapping_add(val, u32(4)))]
    IN  Retire([q EXCEPT !.pc = val])

\* the JAL arm
JalArm(p, inst) ==
    LET val == wrapping_add(p.pc, inst.imm)
        q == [p EXCEPT !.registers =
                 IntRegisterSet_write(@, inst.rd, wrapping_add(p.pc, u32(4)))]
    IN  Retire([q EXCEPT !.pc = val])

\* v & !0b1
ClearBit0(v) == <<v[1], v[2] - (v[2] % 2)>>

\* a JALR arm that writes rd before it reads rs1
JalrArm_link_first(p, inst) ==
    LET q == [p EXCEPT !.registers =
                 IntRegisterSet_write(@, inst.rd, wrapping_add(p.pc, u32(4)))]
        val == ClearBit0(wrapping_add(Reg(q, inst.rs1), i32_as_u32(inst.imm)))
    IN  Retire([q EXCEPT !.pc = val])

\* the JALR arm
JalrArm(p, inst) ==
    LET v1 == Reg(p, inst.rs1)
        v2 == i32_as_u32(inst.imm)
        val == ClearBit0(wrapping_add(v1, v2))
        q == [p EXCEPT !.registers =
                 IntRegisterSet_write(@, inst.rd, wrapping_add(p.pc, u32(4)))]
    IN  Retire([q EXCEPT !.pc = val])

\* Processor::execute.  The match has no arm for FENCEI and the CSR forms the
\* decoder returns: outcome "NoArm".
Processor_execute(p, inst, build) ==
    LET op == inst.op
    IN  CASE op = "LUI" -> WriteRd(p, inst.rd, Shl(inst.imm, 12))
          [] op \in {"LB", "LBU"} -> LoadArm(p, inst, 1)
          [] op \in {"LH", "LHU"} -> LoadArm(p, inst, 2)
          [] op = "LW" -> LoadArm(p, inst, 4)
          [] op = "SB" -> StoreArm(p, inst, 1)
          [] op = "SH" -> StoreArm(p, inst, 2)
          [] op = "SW" -> StoreArm(p, inst, 4)
          [] op = "SLLI" -> ShiftArm(p, inst.rd, Reg(p, inst.rs1), u32(inst.shamt), build, "shl")
          [] op \in {"SRLI", "SRAI"} ->
               ShiftArm(p, inst.rd, Reg(p, inst.rs1), u32(inst.shamt), build, "shr")
          [] op = "SLL" -> ShiftArm(p, inst.rd, Reg(p, inst.rs1), Reg(p, inst.rs2), build, "shl")
          [] op = "SRL" -> ShiftArm(p, inst.rd, Reg(p, inst.rs1), Reg(p, inst.rs2), build, "shr")
          [] op = "SRA" -> ShiftArm(p, inst.rd, Reg(p, inst.rs1), Reg(p, inst.rs2), build, "sar")
          [] op = "ADDI" -> WriteRd(p, inst.rd, wrapping_add(Reg(p, inst.rs1), i32_as_u32(inst.imm)))
          [] op = "ADD" -> WriteRd(p, inst.rd, wrapping_add(Reg(p, inst.rs1), Reg(p, inst.rs2)))
          [] op = "SUB" -> WriteRd(p, inst.rd, wrapping_sub(Reg(p, inst.rs1), Reg(p, inst.rs2)))
          [] op = "ORI" -> WriteRd(p, inst.rd, BitOr(Reg(p, inst.rs1), i32_as_u32(inst.imm)))
          [] op = "XORI" -> WriteRd(p, inst.rd, BitXor(Reg(p, inst.rs1), i32_as_u32(inst.imm)))
          [] op = "ANDI" -> WriteRd(p, inst.rd, BitAnd(Reg(p, inst.rs1), i32_as_u32(inst.imm)))
          [] op = "OR" -> WriteRd(p, inst.rd, BitOr(Reg(p, inst.rs1), Reg(p, inst.rs2)))
          [] op = "XOR" -> WriteRd(p, inst.rd, BitXor(Reg(p, inst.rs1), Reg(p, inst.rs2)))
          [] op = "AND" -> WriteRd(p, inst.rd, BitAnd(Reg(p, inst.rs1), Reg(p, inst.rs2)))
          [] op = "SLTI" ->
               WriteRd(p, inst.rd, bool_as_u32(LtS(Reg(p, inst.rs1), i32_as_u32(inst.imm))))
          [] op = "SLTIU" ->
               WriteRd(p, inst.rd, bool_as_u32(LtU(Reg(p, inst.rs1), i32_as_u32(inst.imm))))
          [] op = "SLT" ->
               WriteRd(p, inst.rd, bool_as_u32(LtS(Reg(p, inst.rs1), Reg(p, inst.rs2))))
          [] op = "SLTU" ->
               WriteRd(p, inst.rd, bool_as_u32(LtU(Reg(p, inst.rs1), Reg(p, inst.rs2))))
          [] op \in {"BEQ", "BNE", "BLT", "BGE", "BLTU", "BGEU"} -> BranchArm(p, inst)
          [] op = "JAL" -> JalArm(p, inst)
          [] op = "AUIPC" -> WriteRd(p, inst.rd, wrapping_add(p.pc, Shl(inst.imm, 12)))
          [] op = "JALR" -> JalrArm(p, inst)
          [] op \in {"FENCE", "FENCETSO"} -> Retire(p)
          [] op = "ECALL" -> Trap(p, "Ecall")
          [] op = "EBREAK" -> Trap(p, "Ebreak")
          [] op = "MUL" -> WriteRd(p, inst.rd, MulU64(Reg(p, inst.rs1), Reg(p, inst.rs2)).lo)
          [] op \in {"MULH", "MULHSU", "MULHU"} ->
               \* `u32 as i64` and `u32 as u64 as i64` both zero-extend
               WriteRd(p, inst.rd, MulU64(Reg(p, inst.rs1), Reg(p, inst.rs2)).hi)
          [] op \in {"DIV", "DIVU", "REM", "REMU"} -> DivArm(p, inst)
          [] OTHER -> Returns("NoArm", p)

-----------------------------------------------------------------------------
(* memory.rs: Memory::load_program.  An ELF file is                        *)
(*   [parses, supported, entry, program_headers, buffer]                   *)
(* where buffer holds the file's bytes (offset o at buffer[o + 1]) and a   *)
(* program header is [p_type, p_offset, p_filesz, p_vaddr, p_memsz].       *)

\* a loader that copies every segment from the start of the file
RECURSIVE LoadSegments_from_file_start(_, _, _, _)
LoadSegments_from_file_start(mem, headers, buffer, entry) ==
    IF headers = <<>> THEN [outcome |-> "Ok", memory |-> mem, entry |-> entry]
    ELSE LET ph == Head(headers)
             vm_end == ph.p_vaddr + ph.p_memsz
             zeroed == [i \in 1..Len(mem) |->
                          IF i > ph.p_vaddr + ph.p_filesz /\ i <= vm_end THEN 0 ELSE mem[i]]
         IN  IF ph.p_type # "PT_LOAD"
             THEN LoadSegments_from_file_start(mem, Tail(headers), buffer, entry)
             ELSE IF vm_end >= Len(mem)
             THEN [outcome |-> "OutOfMemory", memory |-> mem, entry |-> entry]
             ELSE IF ph.p_vaddr + ph.p_filesz > Len(mem) \/ ph.p_filesz > Len(buffer)
             THEN [outcome |-> "Panic", memory |-> zeroed, entry |-> entry]
             ELSE LoadSegments_from_file_start(
                      CopyFromSlice(zeroed, u32(ph.p_vaddr), SubSeq(buffer, 1, ph.p_filesz)),
                      Tail(headers), buffer, entry)

RECURSIVE LoadSegments(_, _, _, _)
LoadSegments(mem, headers, buffer, entry) ==
    IF headers = <<>> THEN [outcome |-> "Ok", memory |-> mem, entry |-> entry]
    ELSE LET ph == Head(headers)
             vm_start == ph.p_vaddr
             vm_end == ph.p_vaddr + ph.p_memsz
             file_start == ph.p_offset
             file_end == ph.p_offset + ph.p_filesz
             ph_size == file_end - file_start
             zeroed == [i \in 1..Len(mem) |->
                          IF i > vm_start + ph_size /\ i <= vm_end THEN 0 ELSE mem[i]]
         IN  IF ph.p_type # "PT_LOAD"
             THEN LoadSegments(mem, Tail(headers), buffer, entry)
             ELSE IF vm_end >= Len(mem)
             THEN [outcome |-> "OutOfMemory", memory |-> mem, entry |-> entry]
             ELSE IF vm_start + ph_size > Len(mem) \/ file_end > Len(buffer)
             THEN [outcome |-> "Panic", memory |-> zeroed, entry |-> entry]
             ELSE LoadSegments(
                      CopyFromSlice(zeroed, u32(vm_start),
                                    SubSeq(buffer, file_start + 1, file_end)),
                      Tail(headers), buffer, entry)

Memory_load_program(mem, elf) ==
    IF ~elf.parses THEN [outcome |-> "Goblin", memory |-> mem, entry |-> u32(0)]
    ELSE IF ~elf.supported
    THEN [outcome |-> "UnsupportedBinary", memory |-> mem, entry |-> u32(0)]
    ELSE LoadSegments(mem, elf.program_headers, elf.buffer, elf.entry)

-----------------------------------------------------------------------------
(* simulator.rs: a Simulator is [processor, logger].                       *)

\* Simulator::new: the simulator, or the loader's error
Simulator_new(elf, memsize, pc_override, logging) ==
    LET loaded == Memory_load_program(Memory_new(memsize), elf)
        processor == Processor_new(loaded.memory)
        start == IF pc_override.some THEN pc_override.pc ELSE loaded.entry
    IN  IF loaded.outcome # "Ok" THEN [outcome |-> loaded.outcome]
        ELSE [outcome |-> "Ok",
              sim |-> [processor |-> Processor_set_pc(processor, start),
                       logger |-> [some |-> logging, lines |-> <<>>]]]

\* the line step writes to the logger
LogLine(p, pc0, inst) ==
    LET raw_inst == Memory_read_word(p.memory, pc0).value
        rd_id == Field(raw_inst, 7, 5)
        rs1_id == Field(raw_inst, 15, 5)
        rs2_id == Field(raw_inst, 20, 5)
    IN  [pc |-> pc0, raw_inst |-> raw_inst,
         rd |-> Reg(p, rd_id), rs1 |-> Reg(p, rs1_id), rs2 |-> Reg(p, rs2_id),
         inst |-> inst]

\* a driver that leaves PC to execute alone
AdvancePc_never(p, pc0) == p

\* if pc == self.processor.pc() { self.processor.set_pc(pc.wrapping_add(4)) }
AdvancePc(p, pc0) ==
    IF pc0 = p.pc THEN Processor_set_pc(p, wrapping_add(pc0, u32(4))) ELSE p

\* Simulator::step after a successful fetch of inst f_inst, execute having
\* returned e
Stepped(sim, pc0, f_inst, e) ==
    IF e.outcome # "Ok"
    THEN [result |-> e.outcome, sim |-> [sim EXCEPT !.processor = e.p],
          fetch |-> "Ok", inst |-> f_inst, executed |-> e.p]
    ELSE [result |-> "Ok",
          sim |-> [processor |-> AdvancePc(e.p, pc0),
                   logger |-> IF sim.logger.some
                              THEN [sim.logger EXCEPT
                                       !.lines = Append(@, LogLine(AdvancePc(e.p, pc0),
                                                                   pc0, f_inst))]
                              ELSE sim.logger],
          fetch |-> "Ok", inst |-> f_inst, executed |-> e.p]

\* a step that moves PC past a word it could not fetch
Fetched_skipping(sim, f, build) ==
    IF f.outcome # "Ok"
    THEN [result |-> f.outcome,
          sim |-> [sim EXCEPT !.processor.pc = wrapping_add(@, u32(4))],
          fetch |-> f.outcome, inst |-> [op |-> "None"], executed |-> sim.processor]
    ELSE Stepped(sim, sim.processor.pc, f.inst,
                 Processor_execute(sim.processor, f.inst, build))

\* Simulator::step, fetch having returned f
Fetched(sim, f, build) ==
    IF f.outcome # "Ok"
    THEN [result |-> f.outcome, sim |-> sim, fetch |-> f.outcome,
          inst |-> [op |-> "None"], executed |-> sim.processor]
    ELSE Stepped(sim, sim.processor.pc, f.inst,
                 Processor_execute(sim.processor, f.inst, build))

\* Simulator::step: [result, sim, fetch, inst, executed]; fetch is what fetch
\* returned, executed the processor as execute left it
Simulator_step(sim, build) == Fetched(sim, Processor_fetch(sim.processor), build)

\* a loop that carries on after an IllegalAccess
Simulator_run_lenient(step_result) ==
    CASE step_result \in {"Ok", "IllegalAccess"} -> "continue"
      [] step_result \in {"Ecall", "Ebreak"} -> "Ok"
      [] OTHER -> step_result

\* one turn of the loop of Simulator::run on what step returned:
\* "continue", or the value run breaks with
Simulator_run(step_result) ==
    CASE step_result = "Ok" -> "continue"
      [] step_result \in {"Ecall", "Ebreak"} -> "Ok"
      [] OTHER -> step_result

-----------------------------------------------------------------------------
(* The inputs: programs, memory sizes, entry overrides, build profiles.    *)

MemSize == 32

MaxCycles == 6

\* a size that is a multiple of 4 and one that is not
MemSizes == {MemSize - 2, MemSize}

Builds == {"debug", "release"}

\* addi rd, x0, v
li(rd, v) == W((v % 4096) * 16, rd * 128 + 19)

ECALL_WORD == W(0, \h0073)

EBREAK_WORD == W(\h0010, \h0073)

Operands1 == {-1, 0, 1, 5}

Operands2 == {-1, 0, 1, 33}

TestInstructions ==
    {
      W(\h0020, \h81B3),   \* 002081B3  add x3,x1,x2
      W(\h4020, \h81B3),   \* 402081B3  sub x3,x1,x2
      W(\h0020, \h91B3),   \* 002091B3  sll x3,x1,x2
      W(\h0020, \hA1B3),   \* 0020A1B3  slt x3,x1,x2
      W(\h0020, \hB1B3),   \* 0020B1B3  sltu x3,x1,x2
      W(\h0020, \hC1B3),   \* 0020C1B3  xor x3,x1,x2
      W(\h0020, \hD1B3),   \* 0020D1B3  srl x3,x1,x2
      W(\h4020, \hD1B3),   \* 4020D1B3  sra x3,x1,x2
      W(\h0020, \hE1B3),   \* 0020E1B3  or x3,x1,x2
      W(\h0020, \hF1B3),   \* 0020F1B3  and x3,x1,x2
      W(\h0220, \h81B3),   \* 022081B3  mul x3,x1,x2
      W(\h0220, \h91B3),   \* 022091B3  mulh x3,x1,x2
      W(\h0220, \hA1B3),   \* 0220A1B3  mulhsu x3,x1,x2
      W(\h0220, \hB1B3),   \* 0220B1B3  mulhu x3,x1,x2
      W(\h0220, \hC1B3),   \* 0220C1B3  div x3,x1,x2
      W(\h0220, \hD1B3),   \* 0220D1B3  divu x3,x1,x2
      W(\h0220, \hE1B3),   \* 0220E1B3  rem x3,x1,x2
      W(\h0220, \hF1B3),   \* 0220F1B3  remu x3,x1,x2
      W(\h0020, \h8033),   \* 00208033  add x0,x1,x2
      W(\h2020, \h81B3),   \* 202081B3  funct7 = 0b0010000: no R instruction
      W(\hFFF0, \h8193),   \* FFF08193  addi x3,x1,-1
      W(\h0000, \hA193),   \* 0000A193  slti x3,x1,0
      W(\hFFF0, \hB193),   \* FFF0B193  sltiu x3,x1,-1
      W(\hFFF0, \hC193),   \* FFF0C193  xori x3,x1,-1
      W(\h0550, \hE193),   \* 0550E193  ori x3,x1,85
      W(\h00F0, \hF193),   \* 00F0F193  andi x3,x1,15
      W(\h0010, \h8013),   \* 00108013  addi x0,x1,1
      W(\h0040, \h9193),   \* 00409193  slli x3,x1,4
      W(\h0040, \hD193),   \* 0040D193  srli x3,x1,4
      W(\h4040, \hD193),   \* 4040D193  srai x3,x1,4
      W(\h0000, \h8183),   \* 00008183  lb x3,0(x1)
      W(\h01E0, \h8183),   \* 01E08183  lb x3,30(x1)
      W(\h0000, \h9183),   \* 00009183  lh x3,0(x1)
      W(\h01E0, \h9183),   \* 01E09183  lh x3,30(x1)
      W(\h0000, \hA183),   \* 0000A183  lw x3,0(x1)
      W(\h01E0, \hA183),   \* 01E0A183  lw x3,30(x1)
      W(\h0000, \hC183),   \* 0000C183  lbu x3,0(x1)
      W(\h01E0, \hC183),   \* 01E0C183  lbu x3,30(x1)
      W(\h0000, \hD183),   \* 0000D183  lhu x3,0(x1)
      W(\h01E0, \hD183),   \* 01E0D183  lhu x3,30(x1)
      W(\h0020, \h8A23),   \* 00208A23  sb x2,20(x1)
      W(\h0020, \h8F23),   \* 00208F23  sb x2,30(x1)
      W(\h0020, \h9A23),   \* 00209A23  sh x2,20(x1)
      W(\h0020, \h9F23),   \* 00209F23  sh x2,30(x1)
      W(\h0020, \hAA23),   \* 0020AA23  sw x2,20(x1)
      W(\h0020, \hAF23),   \* 0020AF23  sw x2,30(x1)
      W(\h0020, \h8463),   \* 00208463  beq x1,x2,8
      W(\h0020, \h8063),   \* 00208063  beq x1,x2,0
      W(\hFE20, \h8CE3),   \* FE208CE3  beq x1,x2,-8
      W(\h0020, \h9463),   \* 00209463  bne x1,x2,8
      W(\h0020, \h9063),   \* 00209063  bne x1,x2,0
      W(\hFE20, \h9CE3),   \* FE209CE3  bne x1,x2,-8
      W(\h0020, \hC463),   \* 0020C463  blt x1,x2,8
      W(\h0020, \hC063),   \* 0020C063  blt x1,x2,0
      W(\hFE20, \hCCE3),   \* FE20CCE3  blt x1,x2,-8
      W(\h0020, \hD463),   \* 0020D463  bge x1,x2,8
      W(\h0020, \hD063),   \* 0020D063  bge x1,x2,0
      W(\hFE20, \hDCE3),   \* FE20DCE3  bge x1,x2,-8
      W(\h0020, \hE463),   \* 0020E463  bltu x1,x2,8
      W(\h0020, \hE063),   \* 0020E063  bltu x1,x2,0
      W(\hFE20, \hECE3),   \* FE20ECE3  bltu x1,x2,-8
      W(\h0020, \hF463),   \* 0020F463  bgeu x1,x2,8
      W(\h0020, \hF063),   \* 0020F063  bgeu x1,x2,0
      W(\hFE20, \hFCE3),   \* FE20FCE3  bgeu x1,x2,-8
      W(\h0080, \h01EF),   \* 008001EF  jal x3,8
      W(\h0000, \h01EF),   \* 000001EF  jal x3,0
      W(\hFF9F, \hF1EF),   \* FF9FF1EF  jal x3,-8
      W(\h0000, \h006F),   \* 0000006F  jal x0,0
      W(\hFF1F, \hF1EF),   \* FF1FF1EF  jal x3,-16
      W(\h7FDF, \hF0EF),   \* 7FDFF0EF  jal x1,1048572
      W(\h8000, \h01EF),   \* 800001EF  jal x3,-1048576
      W(\h0080, \h81E7),   \* 008081E7  jalr x3,8(x1)
      W(\h0070, \h81E7),   \* 007081E7  jalr x3,7(x1)
      W(\h0080, \h80E7),   \* 008080E7  jalr x1,8(x1)
      W(\h1234, \h51B7),   \* 123451B7  lui x3,0x12345
      W(\h0000, \h1197),   \* 00001197  auipc x3,0x1
      W(\h0330, \h000F),   \* 0330000F  fence rw,rw
      W(\h8330, \h000F),   \* 8330000F  fence.tso
      W(\h0000, \h100F),   \* 0000100F  fence.i
      W(\h3000, \h91F3),   \* 300091F3  csrrw x3,0x300,x1
      W(\h0000, \h0073),   \* 00000073  ecall
      W(\h0010, \h0073),   \* 00100073  ebreak
      W(\h0000, \h0000),   \* 00000000  opcode[1:0] = 00
      W(\h0000, \h0001),   \* 00000001  opcode[1:0] = 01
      W(\h0000, \h0043),   \* 00000043  opcode[6:2] = 10000: R4
      W(\h0000, \h000B)    \* 0000000B  opcode[6:2] = 00010: reserved
    }

\* x1 and x2 are set, one instruction runs, then ebreak at 12 and ecall at 16
TestPrograms ==
    {<<li(1, a), li(2, b), t, EBREAK_WORD, ECALL_WORD>> :
        a \in Operands1, b \in Operands2, t \in TestInstructions}

ScenarioAddiEcall == <<W(\h0050, \h0093), ECALL_WORD>>

ScenarioJal == <<W(\h0080, \h00EF), W(0, 0), ECALL_WORD>>

ScenarioLuiAuipc == <<W(\h1234, \h52B7), W(\h0000, \h1317), EBREAK_WORD>>

RECURSIVE Bytes(_)
Bytes(words) ==
    IF words = <<>> THEN <<>> ELSE u32_to_le_bytes(Head(words)) \o Bytes(Tail(words))

\* an ELF32 RISC-V executable with one PT_LOAD segment at address 0, entry 0
ElfOf(words) ==
    [parses |-> TRUE, supported |-> TRUE, entry |-> u32(0),
     program_headers |-> <<[p_type |-> "PT_LOAD", p_offset |-> 0,
                            p_filesz |-> 4 * Len(words), p_vaddr |-> 0,
                            p_memsz |-> 4 * Len(words)]>>,
     buffer |-> Bytes(words)]

NoPc == [some |-> FALSE, pc |-> u32(0)]

SomePc(a) == [some |-> TRUE, pc |-> a]

PcOverrides ==
    {NoPc, SomePc(u32(8)), SomePc(u32(2)), SomePc(u32(MemSize - 4)),
     SomePc(u32(MemSize)), SomePc(u32(MemSize + 2)), SomePc(W(65535, 65532))}

Scenarios == {ScenarioAddiEcall, ScenarioJal, ScenarioLuiAuipc}

-----------------------------------------------------------------------------
(* Spec: a Simulator is constructed and run.                               *)

Proc == [pc |-> pc, cycles |-> cycles, memory |-> memory, registers |-> registers]

Sim == [processor |-> Proc, logger |-> logger]

NoInst == [op |-> "None"]

\* Simulator::new succeeded on one of the given command lines
Constructed(programs, overrides, loggings) ==
    \E words \in programs, memsize \in MemSizes, o \in overrides,
       logging \in loggings, b \in Builds :
        LET s == Simulator_new(ElfOf(words), memsize, o, logging)
        IN  /\ s.outcome = "Ok"
            /\ memory = s.sim.processor.memory
            /\ registers = s.sim.processor.registers
            /\ pc = s.sim.processor.pc
            /\ cycles = s.sim.processor.cycles
            /\ logger = s.sim.logger
            /\ config = [build |-> b, start_pc |-> s.sim.processor.pc]
            /\ state = "running"
            /\ result = "None"
            /\ last = [op |-> "new", pc |-> pc, fetch |-> "None", inst |-> NoInst,
                       result |-> "None", exec_pc |-> pc]

\* every test program from its entry point without a log; the scenarios under
\* every entry override, with and without a log
Init ==
    \/ Constructed(TestPrograms, {NoPc}, {FALSE})
    \/ Constructed(Scenarios, PcOverrides, BOOLEAN)

\* the loop of Simulator::run, step having returned s: continue or break.  A
\* panic and a missing arm unwind: run returns nothing.
Looped(s) ==
    /\ memory' = s.sim.processor.memory
    /\ registers' = s.sim.processor.registers
    /\ pc' = s.sim.processor.pc
    /\ cycles' = s.sim.processor.cycles
    /\ logger' = s.sim.logger
    /\ state' = CASE s.result = "Panic" -> "panicked"
                  [] s.result = "NoArm" -> "no_arm"
                  [] Simulator_run(s.result) = "continue" -> "running"
                  [] OTHER -> "returned"
    /\ result' = IF s.result \in {"Panic", "NoArm", "Ok"} THEN "None"
                 ELSE Simulator_run(s.result)
    /\ last' = [op |-> "step", pc |-> pc, fetch |-> s.fetch, inst |-> s.inst,
                result |-> s.result, exec_pc |-> s.executed.pc]

\* one turn of the loop of Simulator::run: step, then continue or break
Run ==
    /\ state = "running"
    /\ cycles < MaxCycles
    /\ Looped(Simulator_step(Sim, config.build))
    /\ UNCHANGED config

Next == Run

Spec == Init /\ [][Next]_vars

-----------------------------------------------------------------------------
(* SpecMem: a Memory on its own, its accessors called in any order with    *)
(* any address.  A panicking accessor unwinds to the caller (a test's      *)
(* should_panic, catch_unwind), which still holds the Memory.              *)

MemSizeUnit == 5

\* in range, around the end of the buffer, and where address + width wraps
MemAddresses ==
    {u32(a) : a \in 0..(MemSizeUnit + 1)} \cup {W(1, 0), W(65535, 65533), W(65535, 65535)}

WordValue == W(\h00FF, \h0FF0)

HalfwordValue == W(0, \h0FF0)[2]

ByteValue == W(0, \hFF)[2]

InitMem ==
    /\ memory \in {Memory_new(MemSizeUnit - 1), Memory_new(MemSizeUnit)}
    /\ registers = IntRegisterSet_new
    /\ pc = u32(0)
    /\ cycles = 0
    /\ logger = [some |-> FALSE, lines |-> <<>>]
    /\ config = [build |-> "release", start_pc |-> u32(0)]
    /\ state = "running"
    /\ result = "None"
    /\ last = [op |-> "new"]

\* the caller after a write accessor returned or panicked
Wrote(op, width, address, value, r) ==
    /\ memory' = r.memory
    /\ last' = [op |-> op, width |-> width, address |-> address, value |-> value,
                panic |-> r.panic]
    /\ UNCHANGED <<registers, pc, cycles, logger, config, state, result>>

\* the caller after a read accessor returned or panicked
Read(op, width, address, r) ==
    /\ last' = [op |-> op, width |-> width, address |-> address, value |-> r.value,
                panic |-> r.panic]
    /\ UNCHANGED <<memory, registers, pc, cycles, logger, config, state, result>>

WriteByte ==
    \E a \in MemAddresses :
        Wrote("write_byte", 1, a, ByteValue, Memory_write_byte(memory, a, ByteValue))

WriteHalfword ==
    \E a \in MemAddresses :
        Wrote("write_halfword", 2, a, HalfwordValue,
              Memory_write_halfword(memory, a, HalfwordValue))

WriteWord ==
    \E a \in MemAddresses :
        Wrote("write_word", 4, a, WordValue, Memory_write_word(memory, a, WordValue))

ReadByte ==
    \E a \in MemAddresses : Read("read_byte", 1, a, Memory_read_byte(memory, a))

ReadHalfword ==
    \E a \in MemAddresses : Read("read_halfword", 2, a, Memory_read_halfword(memory, a))

ReadWord ==
    \E a \in MemAddresses : Read("read_word", 4, a, Memory_read_word(memory, a))

NextMem ==
    \/ WriteByte
    \/ WriteHalfword
    \/ WriteWord
    \/ ReadByte
    \/ ReadHalfword
    \/ ReadWord

SpecMem == InitMem /\ [][NextMem]_vars

-----------------------------------------------------------------------------
(* SpecReg: the register file of a Processor, written and read directly    *)
(* (IntRegisterSet::write, ::read) and through executed instructions whose *)
(* destination is register 0.                                              *)

RegIndices == {0, 1, 31}

RegValues == {u32(0), u32(5), W(65535, 65535)}

\* decoded instructions with rd = x0, one for each kind of arm that writes rd
RegInstructions ==
    {[op |-> o, rd |-> 0, rs1 |-> 1, rs2 |-> 31] :
        o \in {"ADD", "SUB", "SLTU", "XOR", "SRL", "MUL", "MULHU", "DIVU", "REM"}}
    \cup {[op |-> o, rd |-> 0, rs1 |-> 1, imm |-> 4] :
        o \in {"ADDI", "SLTIU", "ORI", "LB", "LHU", "LW", "JALR"}}
    \cup {[op |-> "LUI", rd |-> 0, imm |-> W(1, 4096)],
          [op |-> "AUIPC", rd |-> 0, imm |-> W(1, 4096)],
          [op |-> "JAL", rd |-> 0, imm |-> u32(8)]}

InitReg ==
    /\ memory = Memory_new(MemSize)
    /\ registers = Processor_new(memory).registers
    /\ pc = u32(0)
    /\ cycles = 0
    /\ logger = [some |-> FALSE, lines |-> <<>>]
    /\ config \in [build : Builds, start_pc : {u32(0)}]
    /\ state = "running"
    /\ result = "None"
    /\ last = [op |-> "new"]

\* registers.write(r, v)
RegWrite ==
    /\ state = "running"
    /\ \E r \in RegIndices, v \in RegValues :
        /\ registers' = IntRegisterSet_write(registers, r, v)
        /\ last' = [op |-> "write", reg |-> r, value |-> v]
    /\ UNCHANGED <<memory, pc, cycles, logger, config, state, result>>

\* registers.read(r)
RegRead ==
    /\ state = "running"
    /\ \E r \in RegIndices :
        last' = [op |-> "read", reg |-> r, value |-> IntRegisterSet_read(registers, r)]
    /\ UNCHANGED <<memory, registers, pc, cycles, logger, config, state, result>>

\* the caller after execute returned e, or panicked
Executed(inst, e) ==
    /\ memory' = e.p.memory
    /\ registers' = e.p.registers
    /\ pc' = e.p.pc
    /\ cycles' = e.p.cycles
    /\ state' = IF e.outcome = "Panic" THEN "panicked" ELSE "running"
    /\ last' = [op |-> "execute", inst |-> inst, result |-> e.outcome]
    /\ UNCHANGED <<logger, config, result>>

\* processor.execute(inst)
RegExecute ==
    /\ state = "running"
    /\ cycles < MaxCycles
    /\ \E inst \in RegInstructions :
        Executed(inst, Processor_execute(Proc, inst, config.build))

NextReg ==
    \/ RegWrite
    \/ RegRead
    \/ RegExecute

SpecReg == InitReg /\ [][NextReg]_vars

-----------------------------------------------------------------------------
(* SpecExec: Processor::execute on its own, applied once to a decoded      *)
(* instruction on a processor whose x1, x2, PC and memory are drawn from   *)
(* small sets.                                                             *)

ExecValues1 ==
    {u32(0), u32(1), u32(5), u32(42), u32(MemSize - 3), u32(MemSize - 1),
     W(32767, 65535), W(32768, 0), W(65535, 65535)}

ExecValues2 ==
    {u32(0), u32(1), u32(4), u32(31), u32(33), W(\h1234, \hF680), W(32768, 0),
     W(65535, 65535)}

ExecPcs == {u32(8), W(65535, 65532)}

\* the bytes at addresses 0..7
ExecBytes == <<128, 0, 0, 128, 255, 127, 85, 1>>

ExecInstructions ==
    {[op |-> o, rd |-> 3, rs1 |-> 1, rs2 |-> 2] :
        o \in {"SLL", "SRL", "SRA", "DIV", "DIVU", "REM", "REMU",
                "MUL", "MULH", "MULHSU", "MULHU"}}
    \cup {[op |-> o, rd |-> 3, rs1 |-> 1, shamt |-> n] :
        o \in {"SLLI", "SRLI", "SRAI"}, n \in {0, 4, 31}}
    \cup {[op |-> o, rd |-> 3, rs1 |-> 1, imm |-> i] :
        o \in {"LB", "LH", "LW", "LBU", "LHU"}, i \in {-1, 0, 2}}
    \cup {[op |-> o, rs1 |-> 1, rs2 |-> 2, imm |-> i] :
        o \in {"SB", "SH", "SW"}, i \in {-1, 0, 2}}
    \cup {[op |-> "JALR", rd |-> d, rs1 |-> 1, imm |-> i] : d \in {0, 1, 3}, i \in {-4, 0, 7}}
    \cup {[op |-> "JAL", rd |-> d, imm |-> i] :
        d \in {0, 3}, i \in {u32(8), u32(0), W(65535, 65528)}}

InitExec ==
    /\ memory = CopyFromSlice(Memory_new(MemSize), u32(0), ExecBytes)
    /\ \E v1 \in ExecValues1, v2 \in ExecValues2 :
        registers = IntRegisterSet_write(
                        IntRegisterSet_write(Processor_new(memory).registers, 1, v1), 2, v2)
    /\ pc \in ExecPcs
    /\ cycles = 0
    /\ logger = [some |-> FALSE, lines |-> <<>>]
    /\ config \in [build : Builds, start_pc : {pc}]
    /\ state = "running"
    /\ result = "None"
    /\ last = [op |-> "new"]

\* processor.execute(inst), once
Execute ==
    /\ state = "running"
    /\ last.op = "new"
    /\ \E inst \in ExecInstructions :
        Executed(inst, Processor_execute(Proc, inst, config.build))

NextExec == Execute

SpecExec == InitExec /\ [][NextExec]_vars

-----------------------------------------------------------------------------
(* SpecDecode: Instruction::try_from on its own, and Processor::fetch of   *)
(* the same word, for words that run through every opcode and funct3 with  *)
(* a few upper fields.                                                     *)

\* funct7 << 25 | rs2 << 20 | x1 << 15 | funct3 << 12 | x3 << 7 | opcode
EncodedWord(funct7, rs2, funct3, opcode) ==
    W(funct7 * 512 + rs2 * 16, 32768 + funct3 * 4096 + 3 * 128 + opcode)

\* S, B and J words (opcodes 0b0100011, 0b1100011, 0b1101111) whose immediate
\* bits are all 0, all 1 and mixed:
\* funct7 << 25 | rs2 << 20 | rs1 << 15 | funct3 << 12 | rd << 7 | opcode
ImmediateWords ==
    {W(funct7 * 512 + rs2 * 16 + (rs1 \div 2),
       (rs1 % 2) * 32768 + funct3 * 4096 + rd * 128 + opcode) :
        funct7 \in {0, 1, 63, 64, 127}, rs2 \in {0, 31}, rs1 \in {0, 31},
        funct3 \in {0, 1, 2, 5}, rd \in {0, 1, 30, 31}, opcode \in {35, 99, 111}}

DecodeWords ==
    {EncodedWord(funct7, rs2, funct3, opcode) :
        funct7 \in {0, 1, 32, 64}, rs2 \in {0, 1, 19}, funct3 \in 0..7, opcode \in 0..127}
    \cup ImmediateWords
    \cup TestInstructions

InitDecode ==
    /\ \E w \in DecodeWords :
        /\ memory = Memory_write_word(Memory_new(MemSize), u32(0), w).memory
        /\ last = [op |-> "new", word |-> w]
    /\ registers = Processor_new(memory).registers
    /\ pc = u32(0)
    /\ cycles = 0
    /\ logger = [some |-> FALSE, lines |-> <<>>]
    /\ config = [build |-> "debug", start_pc |-> pc]
    /\ state = "running"
    /\ result = "None"

\* the caller after try_from returned d
Decoded(w, d) ==
    /\ last' = [op |-> "decode", word |-> w, decoded |-> d]
    /\ UNCHANGED <<memory, registers, pc, cycles, logger, config, state, result>>

\* Instruction::try_from(word)
Decode ==
    /\ last.op = "new"
    /\ Decoded(last.word, Instruction_try_from(last.word))

\* the caller after fetch returned f
FetchReturned(w, f) ==
    /\ last' = [op |-> "fetch", word |-> w, fetch |-> f]
    /\ UNCHANGED <<memory, registers, pc, cycles, logger, config, state, result>>

\* processor.fetch() with the word at PC
Fetch ==
    /\ last.op = "new"
    /\ FetchReturned(last.word, Processor_fetch(Proc))

NextDecode ==
    \/ Decode
    \/ Fetch

SpecDecode == InitDecode /\ [][NextDecode]_vars

-----------------------------------------------------------------------------
(* SpecNew: Memory::load_program and Simulator::new on their own, once     *)
(* each, on a fresh memory and an ELF file drawn from a set of well-formed *)
(* files (p_filesz <= p_memsz, file ranges inside the file, disjoint       *)
(* virtual ranges) whose segments lie inside, at the end of and past the   *)
(* memory, and an unparsable and an unsupported file.                      *)

LoadSize == 8

\* the bytes of the file the program headers point into
LoadBuffer == <<17, 34, 51, 68, 85, 102>>

LoadHeaders ==
    {[p_type |-> "PT_LOAD", p_offset |-> o, p_filesz |-> f, p_vaddr |-> v, p_memsz |-> f + z] :
        o \in {0, 2}, f \in {0, 2, 4}, v \in 0..(LoadSize + 1), z \in {0, 2}}

FirstHeaders ==
    {[p_type |-> "PT_LOAD", p_offset |-> 0, p_filesz |-> 2, p_vaddr |-> v, p_memsz |-> 2 + z] :
        v \in {0, 1}, z \in {0, 1}}

\* a header the loader skips
NoteHeader ==
    [p_type |-> "PT_NOTE", p_offset |-> 0, p_filesz |-> 4, p_vaddr |-> 1, p_memsz |-> 4]

\* the virtual ranges of two headers do not meet
Disjoint(g, h) ==
    g.p_vaddr + g.p_memsz <= h.p_vaddr \/ h.p_vaddr + h.p_memsz <= g.p_vaddr

LoadEntries == {u32(0), u32(4)}

ElfWith(headers, entry) ==
    [parses |-> TRUE, supported |-> TRUE, entry |-> entry,
     program_headers |-> headers, buffer |-> LoadBuffer]

LoadElfs ==
    {ElfWith(<<h>>, e) : h \in LoadHeaders, e \in LoadEntries}
    \cup UNION {{ElfWith(<<g, NoteHeader, h>>, e) :
                    h \in {x \in LoadHeaders : Disjoint(g, x)}, e \in LoadEntries} :
                 g \in FirstHeaders}
    \cup {[ElfWith(<<>>, u32(0)) EXCEPT !.parses = FALSE],
          [ElfWith(<<>>, u32(0)) EXCEPT !.supported = FALSE]}

InitNew ==
    /\ memory = Memory_new(LoadSize)
    /\ registers = IntRegisterSet_new
    /\ pc = u32(0)
    /\ cycles = 0
    /\ logger = [some |-> FALSE, lines |-> <<>>]
    /\ config = [build |-> "debug", start_pc |-> u32(0)]
    /\ state = "running"
    /\ result = "None"
    /\ \E elf \in LoadElfs, o \in {NoPc, SomePc(u32(2))} :
        last = [op |-> "args", elf |-> elf, pc_override |-> o]

\* the caller after load_program returned r, or panicked
Loaded(elf, r) ==
    /\ memory' = r.memory
    /\ state' = IF r.outcome = "Panic" THEN "panicked" ELSE "running"
    /\ last' = [op |-> "load", elf |-> elf, outcome |-> r.outcome, entry |-> r.entry]
    /\ UNCHANGED <<registers, pc, cycles, logger, config, result>>

\* memory.load_program(program)
Load ==
    /\ last.op = "args"
    /\ Loaded(last.elf, Memory_load_program(memory, last.elf))

\* the caller after Simulator::new returned s, or panicked
Built(elf, o, s) ==
    /\ memory' = IF s.outcome = "Ok" THEN s.sim.processor.memory ELSE memory
    /\ registers' = IF s.outcome = "Ok" THEN s.sim.processor.registers ELSE registers
    /\ pc' = IF s.outcome = "Ok" THEN s.sim.processor.pc ELSE pc
    /\ cycles' = IF s.outcome = "Ok" THEN s.sim.processor.cycles ELSE cycles
    /\ logger' = IF s.outcome = "Ok" THEN s.sim.logger ELSE logger
    /\ state' = IF s.outcome = "Panic" THEN "panicked" ELSE "running"
    /\ last' = [op |-> "new", elf |-> elf, pc_override |-> o, outcome |-> s.outcome]
    /\ UNCHANGED <<config, result>>

\* Simulator::new(program, memsize, pc, None)
New ==
    /\ last.op = "args"
    /\ Built(last.elf, last.pc_override,
             Simulator_new(last.elf, Memory_size(memory), last.pc_override, FALSE))

NextNew ==
    \/ Load
    \/ New

SpecNew == InitNew /\ [][NextNew]_vars

-----------------------------------------------------------------------------
(* The claims.                                                             *)

Branches == {"BEQ", "BNE", "BLT", "BGE", "BLTU", "BGEU"}

Jumps == {"JAL", "JALR"}

Traps == {"ECALL", "EBREAK"}

StepErrors == {"IllegalFetch", "MisalignedFetch", "InvalidOpcode", "IllegalAccess"}

\* the branch predicates of RV32I, rs1 and rs2 holding v1 and v2
BranchPredicate(op, v1, v2) ==
    CASE op = "BEQ" -> v1 = v2
      [] op = "BNE" -> v1 # v2
      [] op = "BLT" -> LtS(v1, v2)
      [] op = "BGE" -> ~LtS(v1, v2)
      [] op = "BLTU" -> LtU(v1, v2)
      [] op = "BGEU" -> ~LtU(v1, v2)

\* the last operation was a step that returned success
StepOk == last.op = "step" /\ last.result = "Ok"

\* byte i of a word, least significant first
ByteOf(v, i) ==
    CASE i = 0 -> v[2] % 256
      [] i = 1 -> v[2] \div 256
      [] i = 2 -> v[1] % 256
      [] i = 3 -> v[1] \div 256

\* the byte at address + i
ByteAt(mem, address, i) == Memory_read_byte(mem, wrapping_add(address, u32(i))).value

\* C1: register 0 reads 0 in every reachable state, after any writes
\* (writes to index 0 included) and any executed instructions (those with
\* rd = x0 included); a write to an index r # 0 is observed by the next read
\* of r.
C1_RegisterZero ==
    [][/\ IntRegisterSet_read(registers, 0) = u32(0)
       /\ IntRegisterSet_read(registers', 0) = u32(0)
       /\ (last'.op = "write" /\ last'.reg # 0)
            => IntRegisterSet_read(registers', last'.reg) = last'.value
       /\ (last.op = "write" /\ last.reg # 0 /\ last'.op = "read" /\ last'.reg = last.reg)
            => last'.value = last.value]_vars

\* C1: 5 has just been written to index 0, after an instruction with rd = x0
\* was executed, and register 0 holds 0
C1_Witness ==
    /\ last.op = "write"
    /\ last.reg = 0
    /\ last.value = u32(5)
    /\ cycles > 0
    /\ IntRegisterSet_read(registers, 0) = u32(0)

\* C2: a byte, halfword or word written at an in-range address is returned by
\* the read of the same width at that address; a written word is seen byte by
\* byte from its least significant byte at a to its most significant at a+3,
\* and any four bytes at a..a+3 read back as the little-endian word.
C2_LittleEndianRoundTrip ==
    /\ (last.op = "write_byte" /\ ~last.panic)
         => Memory_read_byte(memory, last.address) = [panic |-> FALSE, value |-> last.value]
    /\ (last.op = "write_halfword" /\ ~last.panic)
         => /\ Memory_read_halfword(memory, last.address)
                 = [panic |-> FALSE, value |-> last.value]
            /\ ByteAt(memory, last.address, 0) = last.value % 256
            /\ ByteAt(memory, last.address, 1) = last.value \div 256
    /\ (last.op = "write_word" /\ ~last.panic)
         => /\ Memory_read_word(memory, last.address)
                 = [panic |-> FALSE, value |-> last.value]
            /\ \A i \in 0..3 : ByteAt(memory, last.address, i) = ByteOf(last.value, i)
    /\ \A a \in MemAddresses :
         ~Memory_read_word(memory, a).panic
            => \A i \in 0..3 : ByteOf(Memory_read_word(memory, a).value, i) = ByteAt(memory, a, i)

\* C2: 0x00FF0FF0 written as a word at address 1 is seen as F0, 0F, FF, 00
C2_Witness ==
    /\ last.op = "write_word"
    /\ ~last.panic
    /\ last.address = u32(1)
    /\ last.value = W(\h00FF, \h0FF0)
    /\ <<ByteAt(memory, u32(1), 0), ByteAt(memory, u32(1), 1),
         ByteAt(memory, u32(1), 2), ByteAt(memory, u32(1), 3)>> = <<240, 15, 255, 0>>

\* addresses 0..size - width
InWindow(address, width, size) == address[1] = 0 /\ address[2] <= size - width

\* C3: in a memory of size N an access of width w succeeds at every address
\* in [0, N - w] and fails at every address >= N - w + 1, without wrapping
\* around; a failed write leaves the contents unchanged.
C3_Bounds ==
    [][/\ last'.panic = ~InWindow(last'.address, last'.width, Memory_size(memory))
       /\ last'.panic => memory' = memory
       /\ Memory_size(memory') = Memory_size(memory)]_vars

\* C3: a word write at N - 3, the first address where it does not fit, failed
\* on a memory that holds data
C3_Witness ==
    /\ last.op = "write_word"
    /\ last.panic
    /\ last.address = u32(Memory_size(memory) - 3)
    /\ memory # Memory_new(Memory_size(memory))

\* C4: after a successful step of an instruction that does not touch PC (not a
\* branch, jump or trap, or a branch that is not taken) PC is the pre-step PC
\* plus 4.
C4_PcAdvancesBy4 ==
    (/\ StepOk
     /\ \/ last.inst.op \notin Branches \cup Jumps \cup Traps
        \/ /\ last.inst.op \in Branches
           /\ ~BranchCondition(last.inst.op, registers[last.inst.rs1],
                               registers[last.inst.rs2]))
        => pc = wrapping_add(last.pc, u32(4))

\* C4: a branch at 8 was not taken and PC is 12
C4_Witness ==
    /\ StepOk
    /\ last.inst.op \in Branches
    /\ ~BranchCondition(last.inst.op, registers[last.inst.rs1], registers[last.inst.rs2])
    /\ last.pc = u32(8)
    /\ pc = u32(12)

\* C5: after a successful step of a branch PC is the pre-step PC + sext(imm)
\* if the predicate holds and the pre-step PC + 4 otherwise; after JAL or JALR
\* PC is the jump target, also when the target is the instruction's own
\* address.
C5_BranchAndJumpTargets ==
    [][(last'.op = "step" /\ last'.result = "Ok") =>
         CASE last'.inst.op \in Branches ->
                pc' = IF BranchPredicate(last'.inst.op, registers[last'.inst.rs1],
                                         registers[last'.inst.rs2])
                      THEN wrapping_add(pc, i32_as_u32(last'.inst.imm))
                      ELSE wrapping_add(pc, u32(4))
           [] last'.inst.op = "JAL" -> pc' = wrapping_add(pc, last'.inst.imm)
           [] last'.inst.op = "JALR" ->
                pc' = BitAnd(wrapping_add(registers[last'.inst.rs1],
                                          i32_as_u32(last'.inst.imm)),
                             W(65535, 65534))
           [] OTHER -> TRUE]_vars

\* C6: execute takes a branch, setting PC to PC + sext(imm), exactly when the
\* RV32I predicate of the branch holds of rs1 and rs2.
C6_BranchPredicates ==
    (/\ StepOk
     /\ last.inst.op \in Branches
     /\ last.inst.imm # 0)
        => ((last.exec_pc = wrapping_add(last.pc, i32_as_u32(last.inst.imm)))
              = BranchPredicate(last.inst.op, registers[last.inst.rs1],
                                registers[last.inst.rs2]))

\* C7 as amended: execute adds exactly 1 to the cycle counter when it returns
\* success or the Ecall/Ebreak trap and leaves it unchanged when it returns
\* IllegalAccess; no other operation of step or run changes the counter, so it
\* never decreases.
C7_CyclesAccounting ==
    [][/\ last'.op = "step"
       /\ (last'.fetch = "Ok" /\ last'.result \in {"Ok", "Ecall", "Ebreak"})
            => cycles' = cycles + 1
       /\ (last'.fetch = "Ok" /\ last'.result = "IllegalAccess") => cycles' = cycles
       /\ last'.fetch # "Ok" => cycles' = cycles
       /\ cycles' >= cycles]_vars

\* C7: a load or store returned IllegalAccess after two counted instructions
C7_Witness ==
    /\ last.op = "step"
    /\ last.fetch = "Ok"
    /\ last.result = "IllegalAccess"
    /\ cycles = 2

\* C7 as stated: every execute adds exactly 1 to the cycle counter, whether it
\* returns success, Ecall, Ebreak or IllegalAccess.
C7_EveryExecuteCounts ==
    [][(/\ last'.op = "step"
        /\ last'.fetch = "Ok"
        /\ last'.result \in {"Ok", "Ecall", "Ebreak", "IllegalAccess"})
          => cycles' = cycles + 1]_vars

\* the simulator runs `addi x1,x0,5; ecall` from PC = 0
RunsAddiEcall ==
    /\ config.start_pc = u32(0)
    /\ Memory_read_word(memory, u32(0)).value = ScenarioAddiEcall[1]
    /\ Memory_read_word(memory, u32(4)).value = ScenarioAddiEcall[2]

\* C8: a step that executes ECALL (EBREAK) returns the Ecall (Ebreak) trap and
\* leaves PC, the registers and memory unchanged; `addi x1,x0,5; ecall` run
\* from PC = 0 ends with PC = 4, x1 = 5 and cycles = 2.
C8_TrapFrame ==
    [][/\ (last'.op = "step" /\ last'.inst.op \in Traps)
            => /\ last'.result = (IF last'.inst.op = "ECALL" THEN "Ecall" ELSE "Ebreak")
               /\ pc' = pc
               /\ registers' = registers
               /\ memory' = memory
       /\ (RunsAddiEcall /\ state' = "returned")
            => /\ last'.result = "Ecall"
               /\ pc' = u32(4)
               /\ registers'[1] = u32(5)
               /\ cycles' = 2]_vars

\* C8: `addi x1,x0,5; ecall` has run to its trap
C8_Witness ==
    /\ RunsAddiEcall
    /\ state = "returned"
    /\ last.inst.op = "ECALL"
    /\ pc = u32(4)
    /\ registers[1] = u32(5)
    /\ cycles = 2

\* C9: run calls step until the first step that does not return success and
\* then stops; it returns Ok if that step returned Ecall or Ebreak and that
\* step's error otherwise; nothing is fetched or executed afterwards.
C9_RunStopsAtFirstError ==
    [][/\ state = "running"
       /\ last'.op = "step"
       /\ (last.op = "step" => last.result = "Ok")
       /\ (state' = "running") = (last'.result = "Ok")
       /\ last'.result \in {"Ecall", "Ebreak"} => (state' = "returned" /\ result' = "Ok")
       /\ last'.result \in StepErrors => (state' = "returned" /\ result' = last'.result)
       /\ state' # "returned" => result' = "None"]_vars

\* C9: after two successful steps the third returned InvalidOpcode and run
\* returned it
C9_Witness ==
    /\ state = "returned"
    /\ last.result = "InvalidOpcode"
    /\ result = "InvalidOpcode"
    /\ cycles = 2

\* C10: fetch returns IllegalFetch if PC >= size (aligned or not), otherwise
\* MisalignedFetch if PC mod 4 # 0, otherwise it decodes the word at PC and
\* returns InvalidOpcode exactly when the decoder rejects it.
C10_FetchGuards ==
    [][last'.op = "step" =>
         CASE ~LtU(pc, u32(Memory_size(memory))) -> last'.fetch = "IllegalFetch"
           [] LtU(pc, u32(Memory_size(memory))) /\ pc[2] % 4 # 0 ->
                last'.fetch = "MisalignedFetch"
           [] OTHER ->
                /\ last'.fetch \in {"Ok", "InvalidOpcode"}
                /\ (last'.fetch = "InvalidOpcode")
                     = ~Instruction_try_from(Memory_read_word(memory, pc).value).ok
                /\ last'.fetch = "Ok"
                     => last'.inst = Instruction_try_from(Memory_read_word(memory, pc).value).inst]_vars

Loads == {"LB", "LH", "LW", "LBU", "LHU"}

Stores == {"SB", "SH", "SW"}

\* the number of bytes a load or store accesses
AccessWidth(op) ==
    CASE op \in {"LB", "LBU", "SB"} -> 1
      [] op \in {"LH", "LHU", "SH"} -> 2
      [] op \in {"LW", "SW"} -> 4

\* addr + w exceeds the size of the memory
ExceedsSize(mem, addr, w) == addr[1] # 0 \/ addr[2] + w > Memory_size(mem)

\* execute has just been applied to an instruction with one of the mnemonics
ExecutedOne(ops) == last.op = "new" /\ last'.op = "execute" /\ last'.inst.op \in ops

\* C11: a load or store of width w at addr = rs1 + sext(imm) returns
\* IllegalAccess, touching neither memory nor registers, when addr + w exceeds
\* the memory size (LH/LHU/SH at size-1, LW/SW at size-3..size-1 included), and
\* succeeds otherwise.
C11_AccessBounds ==
    [][ExecutedOne(Loads \cup Stores)
        => IF ExceedsSize(memory, EffectiveAddress(Proc, last'.inst),
                          AccessWidth(last'.inst.op))
           THEN /\ last'.result = "IllegalAccess"
                /\ state' = "running"
                /\ memory' = memory
                /\ registers' = registers
           ELSE last'.result = "Ok"]_vars

\* the word the step fetched
FetchedWord == Memory_read_word(memory, pc).value

\* inst[31:12] << 12
UpperImmediate(w) == <<w[1], w[2] - (w[2] % 4096)>>

\* the simulator runs `lui x5,0x12345; auipc x6,0x1; ebreak` from PC = 0
RunsLuiAuipc ==
    /\ config.start_pc = u32(0)
    /\ Memory_read_word(memory, u32(0)).value = ScenarioLuiAuipc[1]
    /\ Memory_read_word(memory, u32(4)).value = ScenarioLuiAuipc[2]
    /\ Memory_read_word(memory, u32(8)).value = ScenarioLuiAuipc[3]

\* C12: a step that fetches a U-type word whose field inst[31:12] is U and
\* executes it sets rd to U << 12 for LUI and to PC + (U << 12) for AUIPC;
\* 0x123452B7 at 0 followed by 0x00001317 at 4 gives x5 = 0x12345000 and
\* x6 = 0x00001004.
C12_UpperImmediateOnce ==
    [][/\ (last'.op = "step" /\ last'.inst.op = "LUI" /\ last'.inst.rd # 0)
            => /\ last'.result = "Ok"
               /\ registers'[last'.inst.rd] = UpperImmediate(FetchedWord)
       /\ (last'.op = "step" /\ last'.inst.op = "AUIPC" /\ last'.inst.rd # 0)
            => /\ last'.result = "Ok"
               /\ registers'[last'.inst.rd] = wrapping_add(pc, UpperImmediate(FetchedWord))
       /\ (RunsLuiAuipc /\ state' = "returned")
            => /\ registers'[5] = W(\h1234, \h5000)
               /\ registers'[6] = W(\h0000, \h1004)]_vars

\* sext(imm) of a J-type word: imm[20|10:1|11|19:12] = inst[31|30:21|20|19:12]
JOffset(w) ==
    i32_as_u32(Field(w, 12, 8) * 4096 + Field(w, 20, 1) * 2048 + Field(w, 21, 10) * 2
               - Field(w, 31, 1) * 1048576)

\* the simulator runs `jal x1,+8; <0>; ecall` from PC = 0
RunsJal ==
    /\ config.start_pc = u32(0)
    /\ Memory_read_word(memory, u32(0)).value = ScenarioJal[1]
    /\ Memory_read_word(memory, u32(8)).value = ScenarioJal[3]

\* C13: a step that executes JAL fetched at PC = p leaves execute with
\* PC = p + sext(imm) (modulo 2^32, forward and backward offsets) and
\* rd = p + 4 unless rd is x0, no other register changed; `jal x1,+8` at 0
\* with `ecall` at 8 ends with x1 = 4, PC = 8 and cycles = 2.
C13_JalLinksAndJumps ==
    [][/\ (last'.op = "step" /\ last'.inst.op = "JAL")
            => /\ last'.result = "Ok"
               /\ last'.exec_pc = wrapping_add(pc, JOffset(FetchedWord))
               /\ \A r \in Registers :
                    registers'[r] = IF r = Field(FetchedWord, 7, 5) /\ r # 0
                                    THEN wrapping_add(pc, u32(4))
                                    ELSE registers[r]
       /\ (RunsJal /\ state' = "returned")
            => /\ last'.result = "Ecall"
               /\ registers'[1] = u32(4)
               /\ pc' = u32(8)
               /\ cycles' = 2]_vars

\* C13: `jal x1,+8; <0>; ecall` has run to its trap
C13_Witness ==
    /\ RunsJal
    /\ state = "returned"
    /\ last.inst.op = "ECALL"
    /\ registers[1] = u32(4)
    /\ pc = u32(8)
    /\ cycles = 2

\* C13: a JAL with a backward offset has wrapped PC below 0
C13_WrapsBackward ==
    /\ last.op = "step"
    /\ last.inst.op = "JAL"
    /\ last.pc = u32(8)
    /\ last.exec_pc = W(65535, 65528)
    /\ registers[3] = u32(12)

\* x with bit 0 cleared
EvenBelow(x) == <<x[1], 2 * (x[2] \div 2)>>

\* C14: executing JALR sets PC to (rs1 + sext(imm)) with bit 0 cleared, rs1
\* being read before rd is written, and writes the old PC + 4 to rd (unless
\* rd is x0), also when rd and rs1 are the same register; no other register
\* changes.
C14_JalrTargetFromOldRs1 ==
    [][ExecutedOne({"JALR"})
        => /\ last'.result = "Ok"
           /\ pc' = EvenBelow(wrapping_add(registers[last'.inst.rs1],
                                           i32_as_u32(last'.inst.imm)))
           /\ \A r \in Registers :
                registers'[r] = IF r = last'.inst.rd /\ r # 0
                                THEN wrapping_add(pc, u32(4))
                                ELSE registers[r]]_vars

\* C14: `jalr x1,7(x1)` executed at PC = 8 with x1 = 42
C14_Witness ==
    /\ last.op = "execute"
    /\ last.inst = [op |-> "JALR", rd |-> 1, rs1 |-> 1, imm |-> 7]
    /\ last.result = "Ok"
    /\ pc = u32(48)
    /\ registers[1] = u32(12)

Divisions == {"DIV", "DIVU", "REM", "REMU"}

\* C15: with rs2 = 0, DIVU and DIV succeed and write 0xFFFFFFFF to rd, REMU
\* and REM succeed and write the value of rs1.
C15_DivisionByZero ==
    [][(ExecutedOne(Divisions) /\ registers[last'.inst.rs2] = u32(0))
        => /\ last'.result = "Ok"
           /\ registers'[last'.inst.rd] =
                IF last'.inst.op \in {"DIV", "DIVU"} THEN W(65535, 65535)
                ELSE registers[last'.inst.rs1]]_vars

\* q and r are the quotient and remainder of x by y, truncated toward zero
TruncatedDivision(x, y, q, r) ==
    /\ wrapping_add(MulU64(q, y).lo, r) = x
    /\ LtU(Abs(r), Abs(y))
    /\ r = u32(0) \/ IsNeg(r) = IsNeg(x)
    /\ q = u32(0) \/ IsNeg(q) = (IsNeg(x) # IsNeg(y))

\* C16: with rs1 = INT32_MIN and rs2 = -1, DIV succeeds and writes INT32_MIN
\* and REM succeeds and writes 0; with any other non-zero rs2 they write the
\* quotient and the remainder of the signed division truncated toward zero.
C16_SignedOverflow ==
    [][(ExecutedOne({"DIV", "REM"}) /\ registers[last'.inst.rs2] # u32(0))
        => /\ last'.result = "Ok"
           /\ IF registers[last'.inst.rs1] = W(32768, 0)
                 /\ registers[last'.inst.rs2] = W(65535, 65535)
              THEN registers'[last'.inst.rd] =
                     IF last'.inst.op = "DIV" THEN W(32768, 0) ELSE u32(0)
              ELSE IF last'.inst.op = "DIV"
              THEN TruncatedDivision(registers[last'.inst.rs1], registers[last'.inst.rs2],
                                     registers'[last'.inst.rd],
                                     wrapping_sub(registers[last'.inst.rs1],
                                                  MulU64(registers'[last'.inst.rd],
                                                         registers[last'.inst.rs2]).lo))
              ELSE \E q \in {DivS(registers[last'.inst.rs1], registers[last'.inst.rs2])} :
                     TruncatedDivision(registers[last'.inst.rs1], registers[last'.inst.rs2],
                                       q, registers'[last'.inst.rd])]_vars

\* the n-byte little-endian value at addr, n <= 2
LittleEndianAt(mem, addr, n) ==
    IF n = 1 THEN ByteAt(mem, addr, 0) ELSE ByteAt(mem, addr, 0) + 256 * ByteAt(mem, addr, 1)

\* a value below 2^bits, bits <= 16, sign-extended from its top bit to 32 bits
SignExtend(v, bits) ==
    IF v >= Pow2(bits - 1) THEN <<65535, 65536 - Pow2(bits) + v>> ELSE <<0, v>>

\* what a load of the given mnemonic at addr is to write to rd
LoadedValue(op, mem, addr) ==
    CASE op = "LB" -> SignExtend(LittleEndianAt(mem, addr, 1), 8)
      [] op = "LH" -> SignExtend(LittleEndianAt(mem, addr, 2), 16)
      [] op = "LBU" -> <<0, LittleEndianAt(mem, addr, 1)>>
      [] op = "LHU" -> <<0, LittleEndianAt(mem, addr, 2)>>
      [] op = "LW" -> <<LittleEndianAt(mem, wrapping_add(addr, u32(2)), 2),
                        LittleEndianAt(mem, addr, 2)>>

\* C17: a load inside the memory succeeds and writes to rd the byte (LB)
\* or little-endian halfword (LH) at addr sign-extended to 32 bits, the same
\* zero-extended for LBU and LHU, and the little-endian word for LW.
C17_LoadExtension ==
    [][(/\ ExecutedOne(Loads)
        /\ ~ExceedsSize(memory, EffectiveAddress(Proc, last'.inst),
                        AccessWidth(last'.inst.op)))
        => /\ last'.result = "Ok"
           /\ registers'[last'.inst.rd] =
                LoadedValue(last'.inst.op, memory, EffectiveAddress(Proc, last'.inst))]_vars

\* the processor after the instruction
ProcAfter == [pc |-> pc', cycles |-> cycles', memory |-> memory', registers |-> registers']

\* the unsigned load as wide as the store
LoadOfWidth(w) == CASE w = 1 -> "LBU" [] w = 2 -> "LHU" [] w = 4 -> "LW"

\* the low 8 * w bits of v
LowBits(v, w) == CASE w = 1 -> <<0, v[2] % 256>> [] w = 2 -> <<0, v[2]>> [] w = 4 -> v

\* the store of the w low bytes of v at addr took mem to mem2
StoredExactly(mem, mem2, addr, w, v) ==
    /\ Len(mem2) = Len(mem)
    /\ \A a \in 0..(Len(mem) - 1) :
         mem2[a + 1] = IF addr[2] <= a /\ a < addr[2] + w
                       THEN ByteOf(v, a - addr[2])
                       ELSE mem[a + 1]

\* C18: a store inside the memory succeeds, writes the low 8 (SB), 16 (SH)
\* or 32 (SW) bits of rs2 little-endian at addr, changes no other byte and no
\* register, and the load of the same width at the same address that follows
\* it returns the stored bits.
C18_StoreWritesLowBits ==
    [][(/\ ExecutedOne(Stores)
        /\ ~ExceedsSize(memory, EffectiveAddress(Proc, last'.inst),
                        AccessWidth(last'.inst.op)))
        => /\ last'.result = "Ok"
           /\ registers' = registers
           /\ StoredExactly(memory, memory', EffectiveAddress(Proc, last'.inst),
                            AccessWidth(last'.inst.op), registers[last'.inst.rs2])
           /\ Processor_execute(ProcAfter,
                                [op |-> LoadOfWidth(AccessWidth(last'.inst.op)), rd |-> 3,
                                 rs1 |-> last'.inst.rs1, imm |-> last'.inst.imm],
                                config.build).p.registers[3]
                = LowBits(registers[last'.inst.rs2], AccessWidth(last'.inst.op))]_vars

\* C18: `sh x2,0(x1)` executed with x1 = 5 and x2 = 0x1234F680
C18_Witness ==
    /\ last.op = "execute"
    /\ last.inst = [op |-> "SH", rs1 |-> 1, rs2 |-> 2, imm |-> 0]
    /\ last.result = "Ok"
    /\ registers[1] = u32(5)
    /\ registers[2] = W(\h1234, \hF680)
    /\ SubSeq(memory, 5, 8) = <<255, 128, 246, 1>>

\* C19: SLLI, SRLI and SRAI succeed and write rs1 shifted by shamt (0..31)
\* left, right with zeros, and right with copies of bit 31; SRA with a shift
\* amount below 32 in rs2 shifts right with copies of bit 31 too.
C19_ArithmeticRightShift ==
    [][/\ ExecutedOne({"SLLI", "SRLI", "SRAI"})
            => /\ last'.result = "Ok"
               /\ registers'[last'.inst.rd] =
                    CASE last'.inst.op = "SLLI" ->
                            Shl(registers[last'.inst.rs1], last'.inst.shamt)
                      [] last'.inst.op = "SRLI" ->
                            Shr(registers[last'.inst.rs1], last'.inst.shamt)
                      [] last'.inst.op = "SRAI" ->
                            Sar(registers[last'.inst.rs1], last'.inst.shamt)
       /\ (ExecutedOne({"SRA"}) /\ LtU(registers[last'.inst.rs2], u32(32)))
            => /\ last'.result = "Ok"
               /\ registers'[last'.inst.rd] =
                    Sar(registers[last'.inst.rs1], registers[last'.inst.rs2][2])]_vars

\* C20: SLL, SRL and SRA succeed for every value of rs2 and write rs1 shifted
\* by the low 5 bits of rs2.
C20_ShiftByLowFiveBits ==
    [][ExecutedOne({"SLL", "SRL", "SRA"})
        => /\ last'.result = "Ok"
           /\ registers'[last'.inst.rd] =
                CASE last'.inst.op = "SLL" ->
                        Shl(registers[last'.inst.rs1], registers[last'.inst.rs2][2] % 32)
                  [] last'.inst.op = "SRL" ->
                        Shr(registers[last'.inst.rs1], registers[last'.inst.rs2][2] % 32)
                  [] last'.inst.op = "SRA" ->
                        Sar(registers[last'.inst.rs1], registers[last'.inst.rs2][2] % 32)]_vars

\* the upper 32 bits of the 64-bit product of x and y, x taken as signed when
\* sx and y when sy: the unsigned upper half less y * 2^32 for a negative x
\* and x * 2^32 for a negative y
UpperProduct(x, y, sx, sy) ==
    wrapping_sub(wrapping_sub(MulU64(x, y).hi, IF sx /\ IsNeg(x) THEN y ELSE u32(0)),
                 IF sy /\ IsNeg(y) THEN x ELSE u32(0))

\* C21: MUL succeeds and writes the low 32 bits of rs1 * rs2; MULH, MULHSU and
\* MULHU succeed and write the upper 32 bits of the 64-bit product of rs1 and
\* rs2 taken as signed x signed, signed x unsigned and unsigned x unsigned,
\* also for operands with bit 31 set.
C21_UpperProducts ==
    [][ExecutedOne({"MUL", "MULH", "MULHSU", "MULHU"})
        => /\ last'.result = "Ok"
           /\ registers'[last'.inst.rd] =
                CASE last'.inst.op = "MUL" ->
                        MulU64(registers[last'.inst.rs1], registers[last'.inst.rs2]).lo
                  [] last'.inst.op = "MULH" ->
                        UpperProduct(registers[last'.inst.rs1], registers[last'.inst.rs2],
                                     TRUE, TRUE)
                  [] last'.inst.op = "MULHSU" ->
                        UpperProduct(registers[last'.inst.rs1], registers[last'.inst.rs2],
                                     TRUE, FALSE)
                  [] last'.inst.op = "MULHU" ->
                        UpperProduct(registers[last'.inst.rs1], registers[last'.inst.rs2],
                                     FALSE, FALSE)]_vars

\* the indices opcode[6:2] whose entry in the format table is reserved
ReservedOpcodes == {2, 7, 10, 15, 21, 22, 23, 26, 29, 30, 31}

\* the indices opcode[6:2] of the R4 format class
R4Opcodes == {16, 17, 18, 19}

\* the instruction variants
Mnemonics ==
    {"LUI", "AUIPC", "JAL", "JALR", "BEQ", "BNE", "BLT", "BGE", "BLTU", "BGEU",
     "LB", "LH", "LW", "LBU", "LHU", "SB", "SH", "SW",
     "ADDI", "SLTI", "SLTIU", "XORI", "ORI", "ANDI", "SLLI", "SRLI", "SRAI",
     "ADD", "SUB", "SLL", "SLT", "SLTU", "XOR", "SRL", "SRA", "OR", "AND",
     "FENCE", "FENCETSO", "ECALL", "EBREAK", "FENCEI",
     "CSRRW", "CSRRS", "CSRRC", "CSRRWI", "CSRRSI", "CSRRCI",
     "MUL", "MULH", "MULHSU", "MULHU", "DIV", "DIVU", "REM", "REMU"}

\* opcode[1:0] is not 0b11, or opcode[6:2] is reserved or of the R4 class
NotAnOpcode(w) ==
    Field(w, 0, 2) # 3 \/ Field(w, 2, 5) \in ReservedOpcodes \cup R4Opcodes

\* C22: a word whose opcode[1:0] is not 0b11, or whose opcode[6:2] is a
\* reserved table entry or of the R4 class, is rejected by the decoder and
\* fetching it returns InvalidOpcode; every word is either rejected or decoded
\* to one instruction variant, and fetch returns that instruction or
\* InvalidOpcode.
C22_DecodeRejectsAndIsTotal ==
    /\ last.op = "decode"
        => /\ last.decoded.ok \in BOOLEAN
           /\ last.decoded.ok => last.decoded.inst.op \in Mnemonics
           /\ NotAnOpcode(last.word) => ~last.decoded.ok
    /\ last.op = "fetch"
        => /\ last.fetch.outcome \in {"Ok", "InvalidOpcode"}
           /\ last.fetch.outcome = "Ok" => last.fetch.inst.op \in Mnemonics
           /\ NotAnOpcode(last.word) => last.fetch.outcome = "InvalidOpcode"
           /\ (last.fetch.outcome = "Ok") = Instruction_try_from(last.word).ok

\* C22: the word 0x00000001 (opcode[1:0] = 01) has been refused by fetch
C22_Witness ==
    /\ last.op = "fetch"
    /\ last.word = W(0, 1)
    /\ last.fetch.outcome = "InvalidOpcode"

\* C23: an I-type word with opcode[6:2] = 00100 and funct3 = 001 or 101
\* decodes to SLLI (funct3 001, upper seven immediate bits 0), SRLI (101, 0)
\* or SRAI (101, 0b0100000) with shamt = imm[4:0] and its rd and rs1, and is
\* rejected for any other upper bits.
C23_ShiftImmediates ==
    (/\ last.op = "decode"
     /\ Field(last.word, 0, 7) = 19
     /\ Field(last.word, 12, 3) \in {1, 5})
        => IF Field(last.word, 25, 7) = 0
              \/ (Field(last.word, 12, 3) = 5 /\ Field(last.word, 25, 7) = 32)
           THEN /\ last.decoded.ok
                /\ last.decoded.inst =
                     [op |-> CASE Field(last.word, 12, 3) = 1 -> "SLLI"
                               [] Field(last.word, 25, 7) = 0 -> "SRLI"
                               [] OTHER -> "SRAI",
                      rd |-> Field(last.word, 7, 5),
                      rs1 |-> Field(last.word, 15, 5),
                      shamt |-> Field(last.word, 20, 5)]
           ELSE ~last.decoded.ok

\* what a clause of execute returns: success, a trap or an access error
ExecuteOutcomes == {"Ok", "Ecall", "Ebreak", "IllegalAccess"}

\* C24: every instruction the decoder returns (FENCE.I and the six CSR forms
\* included) is executed by a clause that returns success or one error value;
\* FENCE, FENCE.TSO and FENCE.I return success and leave the registers, memory
\* and PC as they were.
C24_EveryVariantExecutes ==
    [][(last'.op = "step" /\ last'.fetch = "Ok")
        => /\ last'.inst.op \in Mnemonics
           /\ last'.result \in ExecuteOutcomes
           /\ last'.inst.op \in {"FENCE", "FENCETSO", "FENCEI"}
                => /\ last'.result = "Ok"
                   /\ registers' = registers
                   /\ memory' = memory
                   /\ last'.exec_pc = pc]_vars

\* C24 on the fences and CSR forms alone
C24_FencesAndCsrExecute ==
    [][(/\ last'.op = "step"
        /\ last'.fetch = "Ok"
        /\ last'.inst.op \in {"FENCE", "FENCETSO", "FENCEI", "CSRRW", "CSRRS", "CSRRC",
                              "CSRRWI", "CSRRSI", "CSRRCI"})
        => last'.result \in ExecuteOutcomes]_vars

\* the PT_LOAD headers of a file
LoadableHeaders(elf) ==
    {elf.program_headers[i] : i \in {j \in DOMAIN elf.program_headers :
                                        elf.program_headers[j].p_type = "PT_LOAD"}}

\* some PT_LOAD segment's virtual range extends past the size
ExtendsPast(elf, size) == \E h \in LoadableHeaders(elf) : h.p_vaddr + h.p_memsz > size

\* load_program has just returned for a file that parses and is supported
LoadReturned ==
    last.op = "args" /\ last'.op = "load" /\ last.elf.parses /\ last.elf.supported

\* C25: load_program fails with OutOfMemory exactly when some PT_LOAD
\* segment's virtual range extends past the memory size, and succeeds
\* otherwise, a segment that ends exactly at the size included.
C25_OutOfMemoryExactly ==
    [][LoadReturned
        => last'.outcome = IF ExtendsPast(last.elf, Memory_size(memory))
                           THEN "OutOfMemory" ELSE "Ok"]_vars

\* C26: after a successful load_program into a fresh memory the bytes
\* [p_vaddr, p_vaddr + p_filesz) of each PT_LOAD segment are the file's bytes
\* [p_offset, p_offset + p_filesz), the bytes up to p_vaddr + p_memsz are 0,
\* every byte outside the loaded segments is 0, the size is unchanged and the
\* value returned is the ELF entry point.
C26_LoadedImage ==
    [][(LoadReturned /\ last'.outcome = "Ok")
        => /\ Len(memory') = Len(memory)
           /\ last'.entry = last.elf.entry
           /\ \A h \in LoadableHeaders(last.elf) :
                /\ \A i \in 0..(h.p_filesz - 1) :
                     memory'[h.p_vaddr + i + 1] = last.elf.buffer[h.p_offset + i + 1]
                /\ \A i \in h.p_filesz..(h.p_memsz - 1) :
                     memory'[h.p_vaddr + i + 1] = 0
           /\ \A a \in 0..(Len(memory) - 1) :
                (\A h \in LoadableHeaders(last.elf) :
                    a < h.p_vaddr \/ a >= h.p_vaddr + h.p_memsz)
                    => memory'[a + 1] = 0]_vars

\* C26: two segments, the first with one byte of BSS, have been loaded
C26_Witness ==
    /\ last.op = "load"
    /\ last.outcome = "Ok"
    /\ Len(last.elf.program_headers) = 3
    /\ last.entry = u32(4)
    /\ memory = <<17, 34, 0, 51, 68, 85, 102, 0>>

\* C27: Processor::new(M) has PC = 0, cycles = 0, sp = size(M) - 1 and every
\* other register 0; the simulator Simulator::new returns has its PC at the
\* override when one is given and at the ELF entry point otherwise, with the
\* registers and the cycle counter as Processor::new made them.
C27_InitialState ==
    [][(last.op = "args" /\ last'.op = "new" /\ last'.outcome = "Ok")
        => /\ Processor_new(memory').pc = u32(0)
           /\ Processor_new(memory').cycles = 0
           /\ Processor_new(memory').registers =
                [r \in Registers |-> IF r = 2 THEN u32(Memory_size(memory') - 1) ELSE u32(0)]
           /\ pc' = IF last.pc_override.some THEN last.pc_override.pc ELSE last.elf.entry
           /\ registers' = Processor_new(memory').registers
           /\ cycles' = 0]_vars

\* C27: a simulator has been constructed with the PC override 2 for a file
\* whose entry point is 4
C27_Witness ==
    /\ last.op = "new"
    /\ last.outcome = "Ok"
    /\ last.pc_override = SomePc(u32(2))
    /\ last.elf.entry = u32(4)
    /\ pc = u32(2)
    /\ registers[2] = u32(LoadSize - 1)
    /\ cycles = 0

\* C27: a simulator has been constructed without an override for a file whose
\* entry point is 4
C27_StartsAtEntry ==
    /\ last.op = "new"
    /\ last.outcome = "Ok"
    /\ ~last.pc_override.some
    /\ pc = u32(4)

\* C28: with logging enabled each step writes as many log lines as it adds to
\* the cycle counter, so that when run has returned the number of log lines
\* equals the cycle counter, the terminating ECALL or EBREAK included.
C28_OneLogLinePerRetired ==
    [][(logger.some /\ last'.op = "step")
        => /\ Len(logger'.lines) - Len(logger.lines) = cycles' - cycles
           /\ state' = "returned" => Len(logger'.lines) = cycles']_vars

FetchErrors == {"IllegalFetch", "MisalignedFetch", "InvalidOpcode"}

\* C29: a step's fetch returns an instruction or one of IllegalFetch,
\* MisalignedFetch and InvalidOpcode, for every memory size and PC; it reads
\* the word at PC (and so returns an instruction or InvalidOpcode) only when
\* PC is word-aligned and PC + 4 <= size.
C29_FetchStaysInside ==
    [][last'.op = "step"
        => /\ last'.fetch \in {"Ok"} \cup FetchErrors
           /\ last'.fetch \in {"Ok", "InvalidOpcode"}
                => /\ pc[2] % 4 = 0
                   /\ ~ExceedsSize(memory, pc, 4)]_vars

\* the simulator after the step
SimAfter == [processor |-> ProcAfter, logger |-> logger']

\* C30: a step whose fetch fails with IllegalFetch, MisalignedFetch or
\* InvalidOpcode returns that error and leaves PC, the registers, memory, the
\* cycle counter and the log as they were; the same step again returns the
\* same error.
C30_FailedFetchChangesNothing ==
    [][(last'.op = "step" /\ last'.fetch \in FetchErrors)
        => /\ last'.result = last'.fetch
           /\ pc' = pc
           /\ registers' = registers
           /\ memory' = memory
           /\ cycles' = cycles
           /\ logger' = logger
           /\ Simulator_step(SimAfter, config.build).result = last'.result
           /\ Simulator_step(SimAfter, config.build).sim = SimAfter]_vars

\* C30: a run started at the misaligned PC 2 has returned MisalignedFetch
C30_Witness ==
    /\ last.op = "step"
    /\ last.fetch = "MisalignedFetch"
    /\ state = "returned"
    /\ result = "MisalignedFetch"
    /\ pc = u32(2)
    /\ cycles = 0

\* {inst[31:25], inst[11:7]}, sign-extended from bit 11
SImmediate(w) == Field(w, 25, 7) * 32 + Field(w, 7, 5) - Field(w, 31, 1) * 4096

\* {inst[31], inst[7], inst[30:25], inst[11:8], 0}, sign-extended from bit 12
BImmediate(w) ==
    Field(w, 7, 1) * 2048 + Field(w, 25, 6) * 32 + Field(w, 8, 4) * 2
    - Field(w, 31, 1) * 4096

\* {inst[31], inst[19:12], inst[20], inst[30:21], 0}, sign-extended from bit 20
JImmediate(w) ==
    Field(w, 12, 8) * 4096 + Field(w, 20, 1) * 2048 + Field(w, 21, 10) * 2
    - Field(w, 31, 1) * 1048576

\* C31: the immediate of a decoded store is {inst[31:25], inst[11:7]}
\* sign-extended from bit 11, that of a decoded branch
\* {inst[31], inst[7], inst[30:25], inst[11:8], 0} sign-extended from bit 12,
\* that of a decoded JAL {inst[31], inst[19:12], inst[20], inst[30:21], 0}
\* sign-extended from bit 20; branch and JAL immediates are even and lie in
\* [-4096, 4094] and [-1048576, 1048574].
C31_ImmediateAssembly ==
    (last.op = "decode" /\ last.decoded.ok)
        => /\ last.decoded.inst.op \in Stores
                => last.decoded.inst.imm = SImmediate(last.word)
           /\ last.decoded.inst.op \in Branches
                => /\ last.decoded.inst.imm = BImmediate(last.word)
                   /\ last.decoded.inst.imm % 2 = 0
                   /\ last.decoded.inst.imm \in -4096..4094
           /\ last.decoded.inst.op = "JAL"
                => /\ last.decoded.inst.imm = i32_as_u32(JImmediate(last.word))
                   /\ \E v \in {JImmediate(last.word)} :
                        v % 2 = 0 /\ v \in -1048576..1048574

\* C31: a BEQ with the immediate bits 1_0_000000_0000 has decoded to -4096
C31_Witness ==
    /\ last.op = "decode"
    /\ last.decoded.ok
    /\ last.decoded.inst.op = "BEQ"
    /\ Field(last.word, 31, 1) = 1
    /\ last.decoded.inst.imm = -4096

\* C32: a step whose execute returns IllegalAccess returns that error and
\* leaves every register, all of memory and PC as they were before the step:
\* neither the load or store nor the step driver has written anything.
C32_IllegalAccessChangesNothing ==
    [][(last'.op = "step" /\ last'.result = "IllegalAccess")
        => /\ last'.inst.op \in Loads \cup Stores
           /\ registers' = registers
           /\ memory' = memory
           /\ last'.exec_pc = pc
           /\ pc' = pc]_vars

\* C32: a load beyond the memory has returned IllegalAccess at PC = 8
C32_Witness ==
    /\ last.op = "step"
    /\ last.result = "IllegalAccess"
    /\ last.inst.op \in Loads
    /\ state = "returned"
    /\ result = "IllegalAccess"
    /\ pc = u32(8)

\* the instructions that have no destination register
WithoutRd == Branches \cup Stores \cup Traps \cup {"FENCE", "FENCETSO", "FENCEI"}

\* C33: a step changes memory only if it executes SB, SH or SW; it changes at
\* most one register, the rd of the instruction it fetched, and none if that
\* instruction is a branch, a store, a fence, ECALL or EBREAK; the size of the
\* memory is the same after every step.
C33_ExecuteFrame ==
    [][last'.op = "step"
        => /\ last'.inst.op \notin Stores => memory' = memory
           /\ Len(memory') = Len(memory)
           /\ last'.inst.op \in WithoutRd \cup {"None"} => registers' = registers
           /\ \A r \in Registers :
                registers'[r] # registers[r]
                    => /\ last'.fetch = "Ok"
                       /\ r = Field(FetchedWord, 7, 5)]_vars

\* C33: `sw x2,20(x1)` with x1 = 0 and x2 = 0xFFFFFFFF has stored its word
C33_Witness ==
    /\ last.op = "step"
    /\ last.inst.op = "SW"
    /\ last.result = "Ok"
    /\ registers[1] = u32(0)
    /\ registers[2] = W(65535, 65535)
    /\ registers[3] = u32(0)
    /\ Memory_read_word(memory, u32(20)).value = W(65535, 65535)

\* the errors load_program returns
LoadErrors == {"OutOfMemory", "UnsupportedBinary", "Goblin"}

\* C34: when load_program returns an error (OutOfMemory, UnsupportedBinary or
\* a parse error) the memory holds what it held before the call, also when
\* PT_LOAD segments that fit precede the one that does not.
C34_LoadAllOrNothing ==
    [][(last.op = "args" /\ last'.op = "load" /\ last'.outcome \in LoadErrors)
        => memory' = memory]_vars
====
